---- MODULE Spec2Model ----
(***************************************************************************)
(* Groundhog: dashboard backup / restore service.                          *)
(*                                                                         *)
(* State machine of the Snapshot Repository (BackupRepository, a DynamoDB  *)
(* single-table design), the Blob Store (S3) and the Backup Orchestrator   *)
(* (BackupService.backupDashboard).                                        *)
(*                                                                         *)
(* Conventions                                                             *)
(*  - A timestamp is the millisecond clock value. Date.toISOString() is a  *)
(*    fixed-width rendering whose string order is the numeric order, so    *)
(*    the integer stands for the ISO string.                               *)
(*  - A template string `A#${x}#${y}` over identifiers that hold no '#'    *)
(*    is the tuple <<"A", x, y>>; string order of such keys is the         *)
(*    lexicographic order of the tuples.                                   *)
(*  - Every await of the code is a step boundary: other calls may run      *)
(*    between two steps of one call.                                       *)
(***************************************************************************)
EXTENDS Integers, Sequences, FiniteSets, TLC

\* ------------------------------------------------------------------ bounds
MaxClock == 1            \* the clock takes the values 0..MaxClock
MaxEdits == 1            \* external edits of a dashboard in New Relic
MaxCreates == 3          \* repository writes in the query specification
MaxLimit == 2            \* page sizes 1..MaxLimit asked by callers
MaxPage == 2             \* page numbers 1..MaxPage asked by callers
MaxItemsSmall == 2       \* a small maxItems given to listByOrg
MaxBackups == 2          \* backups requested in the service specifications
SearchMaxItems == 2      \* the cap of the search scan (1000), scaled to MaxCreates

\* ------------------------------------------------------- program constants
DEFAULT_MAX_ITEMS == 10000
BACKUP_BUCKET == "groundhog-backups-dev"

Orgs == {"orgA", "orgB"}
Guids == {"D1", "D2"}
Procs == {"p1", "p2"}
None == "none"          \* no string
Null == [null |-> TRUE] \* no record
NoKey == <<>>           \* no key, no body

VARIABLES
    clock,      \* Date.now()
    nextUuid,   \* uuid(): the next fresh identifier
    table,      \* DynamoDB table: the set of BACKUP items
    s3,         \* Blob Store: <<bucket, key>> -> body
    nrDash,     \* New Relic: guid -> dashboard entity
    nrEdits,    \* number of external edits so far
    apiKeys,    \* DynamoDB table: the APIKEY item of each org
    calls,      \* backupDashboard invocations: position and locals
    created,    \* history: what each BackupRepository.create returned
    rd,         \* a repository read in progress: position and locals
    rs,         \* a restore or content request in progress: position and locals
    bt,         \* a backupAllDashboards call in progress: position and locals
    members,    \* DynamoDB: the MEMBERSHIP items of one organization, user -> role
    mops,       \* OrganizationService calls on members: position and locals
    secrets,    \* Secrets Manager: the names of the secrets there are
    keyItems,   \* DynamoDB: the APIKEY items written by ApiKeyService.create
    kops,       \* ApiKeyService.create calls: position and locals
    hd          \* the backup queue handler: its records and how they settled

vars == <<clock, nextUuid, table, s3, nrDash, nrEdits, apiKeys, calls, created, rd, rs, bt,
          members, mops, secrets, keyItems, kops, hd>>
storeVars == <<table, s3, apiKeys, created>>
worldVars == <<clock, nextUuid, nrDash, nrEdits>>
readVars == <<rd>>
serviceVars == <<rs, bt>>
adminVars == <<members, mops, secrets, keyItems, kops>>
queueVars == <<hd>>

\* ------------------------------------------------------------- sequences
Min(a, b) == IF a <= b THEN a ELSE b

Take(s, n) == SubSeq(s, 1, Min(n, Len(s)))

Range(s) == {s[i] : i \in 1..Len(s)}

\* ----------------------------------------------------- external dashboard
AccountOf(g) == IF g = "D1" THEN "111" ELSE "222"

NameOf(g) == IF g = "D1" THEN "Alpha" ELSE "Beta"

\* A page of a dashboard with its one widget, as NerdGraph returns it.
DashboardPage(g, i) ==
    [guid |-> <<g, "page", i>>,
     name |-> "Page",
     widgets |-> << [id |-> <<g, "widget", i>>, title |-> "T"] >>]

\* The entity New Relic holds for guid g at version v: each edit adds a page.
DashboardEntity(g, v) ==
    [guid |-> g, name |-> NameOf(g), accountId |-> AccountOf(g),
     pages |-> [i \in 1..v |-> DashboardPage(g, i)],
     createdAt |-> "2024-01-01", updatedAt |-> v]

\* The order in which the properties of an object are enumerated: the order
\* of the fields in the NerdGraph query, which spread and delete keep.
PropertyOrder ==
    <<"guid", "id", "name", "title", "description", "accountId", "pages",
      "widgets", "variables", "createdAt", "updatedAt">>

\* The properties that hold arrays of objects.
ArrayKeys == {"pages", "widgets", "variables"}

\* JSON.stringify(object): the text, a sequence of members <<key, value>> in
\* property order, the value of an array being the texts of its elements.
RECURSIVE JsonStringify(_)
JsonStringify(d) ==
    LET keys == SelectSeq(PropertyOrder, LAMBDA k : k \in DOMAIN d)
    IN [i \in 1..Len(keys) |->
          <<keys[i],
            IF keys[i] \in ArrayKeys
            THEN [j \in 1..Len(d[keys[i]]) |-> JsonStringify(d[keys[i]][j])]
            ELSE d[keys[i]]>>]

\* JSON.parse(text): the object whose properties are the members of the text.
RECURSIVE JsonParse(_)
JsonParse(json) ==
    [k \in {json[i][1] : i \in 1..Len(json)} |->
        LET v == json[CHOOSE i \in 1..Len(json) : json[i][1] = k][2]
        IN IF k \in ArrayKeys THEN [j \in 1..Len(v) |-> JsonParse(v[j])] ELSE v]

\* crypto.createHash('sha256').update(body).digest('hex'): an ideal
\* (collision-free) digest, a value of its own kind determined by the bytes.
Sha256(body) == <<"sha256", body>>

\* Buffer.byteLength(body, 'utf8'): one unit per scalar member, two for the
\* brackets of an array and of each of its elements, plus what they hold.
RECURSIVE ByteLength(_)
RECURSIVE ByteLengthOfArray(_)
ByteLength(body) ==
    IF Len(body) = 0 THEN 0
    ELSE LET m == Head(body)
         IN (IF m[1] \in ArrayKeys THEN ByteLengthOfArray(m[2]) ELSE 1)
            + ByteLength(Tail(body))

ByteLengthOfArray(texts) ==
    IF Len(texts) = 0 THEN 2
    ELSE 2 + ByteLength(Head(texts)) + ByteLengthOfArray(Tail(texts))

\* ------------------------------------------------------------ Blob Store
EncodeURIComponent(g) == <<"uri", g>>

SafeTimestamp(ts) == <<"safe", ts>>

GenerateBackupKey(orgId, accountId, dashboardGuid, timestamp) ==
    <<orgId, accountId, EncodeURIComponent(dashboardGuid), SafeTimestamp(timestamp)>>

HasObject(bucket, key) == <<bucket, key>> \in DOMAIN s3

GetObject(bucket, key) == IF HasObject(bucket, key) THEN s3[<<bucket, key>>] ELSE NoKey

PutObjectInto(store, bucket, key, body) ==
    [k \in DOMAIN store \cup {<<bucket, key>>} |->
        IF k = <<bucket, key>> THEN body ELSE store[k]]

\* ------------------------------------------------------ DynamoDB: BACKUP items
GuidRank(g) == IF g = "D1" THEN 1 ELSE 2

\* String order of two sort keys BACKUP#<guid>#<timestamp>.
SKLess(a, b) ==
    \/ GuidRank(a[2]) < GuidRank(b[2])
    \/ a[2] = b[2] /\ a[3] < b[3]

\* String order of two index sort keys BACKUP#<timestamp>.
GSI1SKLess(a, b) == a[2] < b[2]

\* The Item of the PutCommand of BackupRepository.create.
BackupItem(input, now, snapshotId) ==
    [PK |-> <<"ORG", input.orgId>>,
     SK |-> <<"BACKUP", input.dashboardGuid, now>>,
     GSI1PK |-> <<"ORG", input.orgId, "DASHBOARD", input.dashboardGuid>>,
     GSI1SK |-> <<"BACKUP", now>>,
     GSI2PK |-> <<"ORG", input.orgId, "ACCOUNT", input.accountId>>,
     GSI2SK |-> <<"BACKUP", now>>,
     snapshotId |-> snapshotId,
     orgId |-> input.orgId,
     dashboardGuid |-> input.dashboardGuid,
     dashboardName |-> input.dashboardName,
     accountId |-> input.accountId,
     accountName |-> input.accountName,
     s3Key |-> input.s3Key,
     s3Bucket |-> input.s3Bucket,
     backupTimestamp |-> now,
     sizeBytes |-> input.sizeBytes,
     checksum |-> input.checksum,
     entityType |-> "BACKUP"]

\* PutCommand: an item with the same primary key (PK, SK) is replaced.
PutItem(tbl, item) ==
    {i \in tbl : ~(i.PK = item.PK /\ i.SK = item.SK)} \cup {item}

\* mapToBackup: the Backup fields of an item.
MapToBackup(item) ==
    [snapshotId |-> item.snapshotId,
     orgId |-> item.orgId,
     dashboardGuid |-> item.dashboardGuid,
     dashboardName |-> item.dashboardName,
     accountId |-> item.accountId,
     accountName |-> item.accountName,
     s3Key |-> item.s3Key,
     s3Bucket |-> item.s3Bucket,
     backupTimestamp |-> item.backupTimestamp,
     sizeBytes |-> item.sizeBytes,
     checksum |-> item.checksum]

\* ScanIndexForward: false on the table: the items in descending order of SK.
RECURSIVE SortBySKDesc(_)
SortBySKDesc(S) ==
    IF S = {} THEN <<>>
    ELSE LET top == CHOOSE x \in S : \A y \in S : ~SKLess(x.SK, y.SK)
         IN <<top>> \o SortBySKDesc(S \ {top})

\* ScanIndexForward: false on GSI1: descending GSI1SK. Two items of one index
\* partition with equal GSI1SK would share PK and SK, so the order is total.
RECURSIVE SortByGSI1SKDesc(_)
SortByGSI1SKDesc(S) ==
    IF S = {} THEN <<>>
    ELSE LET top == CHOOSE x \in S : \A y \in S : ~GSI1SKLess(x.GSI1SK, y.GSI1SK)
         IN <<top>> \o SortByGSI1SKDesc(S \ {top})

\* The items of org's partition whose SK begins with BACKUP#.
\* KeyConditionExpression 'PK = :pk AND begins_with(SK, :sk)'.
OrgPartition(tbl, orgId) ==
    {i \in tbl : i.PK = <<"ORG", orgId>> /\ i.SK[1] = "BACKUP"}

\* ---------------------------------------------------------------- initial state
IdleCall ==
    [pc |-> "idle", orgId |-> None, dashboardGuid |-> None, dashboardJson |-> <<>>,
     timestamp |-> 0, s3Key |-> NoKey, checksum |-> NoKey, sizeBytes |-> 0,
     backup |-> Null, backupCount |-> 0, error |-> None, fetched |-> FALSE,
     nrResponse |-> None, putDone |-> FALSE]

IdleRead ==
    [op |-> None, pc |-> "idle", orgId |-> None, snapshotId |-> 0,
     dashboardGuid |-> None, limit |-> 0, page |-> 0, firstPage |-> 0,
     maxItems |-> 0, lastEvaluatedKey |-> NoKey, allItems |-> <<>>, skipped |-> 0,
     hasMoreData |-> FALSE, totalCount |-> 0, concat |-> <<>>,
     listed |-> Null, search |-> <<>>, result |-> Null]

\* The accounts a validated key gives access to.
AccountIds == <<"111", "222">>

Users == {"u1", "u2"}

IdleMemberOp ==
    [op |-> None, pc |-> "idle", userId |-> None, newRole |-> None,
     membership |-> None, adminCount |-> 0, error |-> None]

IdleKeyOp ==
    [pc |-> "idle", orgId |-> None, subscriptionTier |-> None, currentCount |-> 0,
     limit |-> 0, valid |-> FALSE, accounts |-> <<>>, secretArn |-> NoKey,
     apiKey |-> Null, error |-> None]

IdleHandler == [pc |-> "idle", Records |-> <<>>, results |-> <<>>]

ActiveKey ==
    [status |-> "ACTIVE", hasSecret |-> TRUE, dashboardCount |-> 0,
     lastBackupRun |-> None, newRelicAccountIds |-> AccountIds]

IdleRestore ==
    [op |-> None, pc |-> "idle", orgId |-> None, guid |-> None, snapshotId |-> 0,
     targetAccountId |-> None, newName |-> None, restoreInPlace |-> FALSE,
     backup |-> Null, content |-> NoKey, s3Response |-> None, sent |-> Null,
     nrResponse |-> None, result |-> Null, error |-> None, statusCode |-> 0]

IdleBatch ==
    [pc |-> "idle", orgId |-> None, accountId |-> None, accountsToBackup |-> <<>>,
     acc |-> 0, dashboards |-> <<>>, listed |-> <<>>, attempted |-> <<>>,
     listFailures |-> 0, results |-> <<>>, errors |-> <<>>, snapshots |-> {},
     writes |-> 0, error |-> None]

Init ==
    /\ clock = 0
    /\ nextUuid = 1
    /\ table = {}
    /\ s3 = <<>>
    /\ nrDash = [g \in Guids |-> DashboardEntity(g, 1)]
    /\ nrEdits = 0
    /\ apiKeys = [o \in Orgs |-> ActiveKey]
    /\ calls = [p \in Procs |-> IdleCall]
    /\ created = {}
    /\ rd = IdleRead
    /\ rs = IdleRestore
    /\ bt = IdleBatch
    /\ members = [u \in Users |-> IF u = "u1" THEN "ADMIN" ELSE None]
    /\ mops = [p \in Procs |-> IdleMemberOp]
    /\ secrets = {}
    /\ keyItems = {}
    /\ kops = [p \in Procs |-> IdleKeyOp]
    /\ hd = IdleHandler

\* ------------------------------------------------------------- environment
\* Time passes between two reads of the clock, or does not.
Tick ==
    /\ clock < MaxClock
    /\ clock' = clock + 1
    /\ UNCHANGED <<nextUuid, nrDash, nrEdits, storeVars, calls, readVars, serviceVars, adminVars, queueVars>>

\* A user edits the dashboard in New Relic: its definition changes.
NREdit(g) ==
    /\ nrEdits < MaxEdits
    /\ nrDash[g] # Null
    /\ nrDash' = [nrDash EXCEPT ![g] = DashboardEntity(g, Len(nrDash[g].pages) + 1)]
    /\ nrEdits' = nrEdits + 1
    /\ UNCHANGED <<clock, nextUuid, storeVars, calls, readVars, serviceVars, adminVars, queueVars>>

\* ------------------------------------------ ApiKeyService.getNewRelicClient
\* What getNewRelicClient(orgId, apiKeyId) throws, None when it returns a
\* client: the record is looked up, its status tested, its secret fetched.
ClientError(orgId) ==
    LET apiKey == apiKeys[orgId] IN
    IF apiKey = Null THEN "NotFoundError"
    ELSE IF apiKey.status # "ACTIVE" THEN "BadRequestError"
    ELSE IF ~apiKey.hasSecret THEN "BadRequestError"
    ELSE None

\* ------------------------------------------- BackupService.backupDashboard
Fail(p, kind) == [calls EXCEPT ![p].pc = "failed", ![p].error = kind]

\* The call is made: backupDashboard({orgId, apiKeyId, dashboardGuid}).
StartBackup(p, orgId, dashboardGuid) ==
    /\ calls[p].pc = "idle"
    /\ calls' = [calls EXCEPT ![p].pc = "getClient", ![p].orgId = orgId,
                              ![p].dashboardGuid = dashboardGuid]
    /\ UNCHANGED <<worldVars, storeVars, readVars, serviceVars, adminVars, queueVars>>

\* ApiKeyService.getNewRelicClient: the credential must exist, be ACTIVE and
\* have its secret.
GetNewRelicClient(p) ==
    /\ calls[p].pc = "getClient"
    /\ LET thrown == ClientError(calls[p].orgId) IN
       calls' = IF thrown # None THEN Fail(p, thrown)
                ELSE [calls EXCEPT ![p].pc = "fetch"]
    /\ UNCHANGED <<worldVars, storeVars, readVars, serviceVars, adminVars, queueVars>>

\* nrClient.getDashboardJson, then the synchronous lines 57-70: parse, read
\* the clock, derive the key, the checksum and the size from the same string.
GetDashboardJson(p) ==
    /\ calls[p].pc = "fetch"
    /\ \/ \* getDashboard caught a transport error and returned null
          calls' = [Fail(p, "NotFoundError") EXCEPT ![p].fetched = TRUE,
                                                     ![p].nrResponse = "error"]
       \/ LET c == calls[p]
              entity == nrDash[c.dashboardGuid]
              dashboardJson == JsonStringify(entity)
              dashboard == JsonParse(dashboardJson)
              timestamp == clock
          IN calls' =
               IF entity = Null
               THEN [Fail(p, "NotFoundError") EXCEPT ![p].fetched = TRUE,
                                                          ![p].nrResponse = "data"]
               ELSE [calls EXCEPT
                       ![p].pc = "put",
                       ![p].fetched = TRUE,
                       ![p].nrResponse = "data",
                       ![p].dashboardJson = dashboardJson,
                       ![p].timestamp = timestamp,
                       ![p].s3Key = GenerateBackupKey(c.orgId, dashboard.accountId,
                                                      c.dashboardGuid, timestamp),
                       ![p].checksum = Sha256(dashboardJson),
                       ![p].sizeBytes = ByteLength(dashboardJson)]
    /\ UNCHANGED <<worldVars, storeVars, readVars, serviceVars, adminVars, queueVars>>

\* Mutant of PutObject: the rejection is caught and logged, the call goes on.
PutObject_Swallowed(p) ==
    /\ calls[p].pc = "put"
    /\ \/ /\ s3' = PutObjectInto(s3, BACKUP_BUCKET, calls[p].s3Key, calls[p].dashboardJson)
          /\ calls' = [calls EXCEPT ![p].pc = "create", ![p].putDone = TRUE]
       \/ /\ calls' = [calls EXCEPT ![p].pc = "create", ![p].error = "S3Error"]
          /\ UNCHANGED s3
    /\ UNCHANGED <<worldVars, table, apiKeys, created, readVars, serviceVars, adminVars, queueVars>>

\* await putObject(BACKUP_BUCKET, s3Key, dashboardJson): a rejection leaves
\* backupDashboard at once.
PutObject(p) ==
    /\ calls[p].pc = "put"
    /\ \/ /\ s3' = PutObjectInto(s3, BACKUP_BUCKET, calls[p].s3Key, calls[p].dashboardJson)
          /\ calls' = [calls EXCEPT ![p].pc = "create", ![p].putDone = TRUE]
       \/ /\ calls' = Fail(p, "S3Error")
          /\ UNCHANGED s3
    /\ UNCHANGED <<worldVars, table, apiKeys, created, readVars, serviceVars, adminVars, queueVars>>

\* Mutant of CreateInput: the key is derived again, from the clock as it is now.
CreateInput_Rekeyed(c) ==
    LET dashboard == JsonParse(c.dashboardJson) IN
    [orgId |-> c.orgId,
     dashboardGuid |-> c.dashboardGuid,
     dashboardName |-> dashboard.name,
     accountId |-> dashboard.accountId,
     accountName |-> "",
     s3Key |-> GenerateBackupKey(c.orgId, dashboard.accountId, c.dashboardGuid, clock),
     s3Bucket |-> BACKUP_BUCKET,
     sizeBytes |-> c.sizeBytes,
     checksum |-> c.checksum]

\* The input backupDashboard hands to BackupRepository.create.
CreateInput(c) ==
    LET dashboard == JsonParse(c.dashboardJson) IN
    [orgId |-> c.orgId,
     dashboardGuid |-> c.dashboardGuid,
     dashboardName |-> dashboard.name,
     accountId |-> dashboard.accountId,
     accountName |-> "",
     s3Key |-> c.s3Key,
     s3Bucket |-> BACKUP_BUCKET,
     sizeBytes |-> c.sizeBytes,
     checksum |-> c.checksum]

\* await backupRepository.create(...): reads the clock again, draws a uuid
\* and puts the item; a rejection leaves backupDashboard at once.
CreateBackup(p) ==
    /\ calls[p].pc = "create"
    /\ \/ LET item == BackupItem(CreateInput(calls[p]), clock, nextUuid) IN
          /\ table' = PutItem(table, item)
          /\ nextUuid' = nextUuid + 1
          /\ created' = created \cup
                {[backup |-> MapToBackup(item), by |-> p,
                  body |-> GetObject(item.s3Bucket, item.s3Key)]}
          /\ calls' = [calls EXCEPT ![p].pc = "count", ![p].backup = MapToBackup(item)]
       \/ /\ calls' = Fail(p, "DynamoDBError")
          /\ UNCHANGED <<nextUuid, table, created>>
    /\ UNCHANGED <<clock, nrDash, nrEdits, s3, apiKeys, readVars, serviceVars, adminVars, queueVars>>

\* await backupRepository.countByOrg(orgId)
CountBackups(p) ==
    /\ calls[p].pc = "count"
    /\ \/ calls' = [calls EXCEPT
                      ![p].pc = "update",
                      ![p].backupCount = Cardinality(OrgPartition(table, calls[p].orgId))]
       \/ calls' = Fail(p, "DynamoDBError")
    /\ UNCHANGED <<worldVars, storeVars, readVars, serviceVars, adminVars, queueVars>>

\* await apiKeyRepository.update(orgId, apiKeyId, {dashboardCount, lastBackupRun}),
\* ConditionExpression attribute_exists(PK); then the result is returned.
UpdateApiKey(p) ==
    /\ calls[p].pc = "update"
    /\ LET c == calls[p] IN
       \/ /\ apiKeys[c.orgId] # Null
          /\ apiKeys' = [apiKeys EXCEPT ![c.orgId].dashboardCount = c.backupCount,
                                        ![c.orgId].lastBackupRun = c.timestamp]
          /\ calls' = [calls EXCEPT ![p].pc = "done"]
       \/ /\ calls' = Fail(p, "DynamoDBError")
          /\ UNCHANGED apiKeys
    /\ UNCHANGED <<worldVars, table, s3, created, readVars, serviceVars, adminVars, queueVars>>

BackupStep(p) ==
    \/ \E orgId \in Orgs, g \in Guids : StartBackup(p, orgId, g)
    \/ GetNewRelicClient(p)
    \/ GetDashboardJson(p)
    \/ PutObject(p)
    \/ CreateBackup(p)
    \/ CountBackups(p)
    \/ UpdateApiKey(p)

Next ==
    \/ Tick
    \/ \E g \in Guids : NREdit(g)
    \/ \E p \in Procs : BackupStep(p)

Spec == Init /\ [][Next]_vars

\* ------------------------------------------------------------ DynamoDB Query
\* LastEvaluatedKey / ExclusiveStartKey: the primary key of an item.
KeyOf(i) == <<i.PK, i.SK>>

\* What is left of a descending partition after ExclusiveStartKey.
AfterKey(items, startKey) ==
    SelectSeq(items, LAMBDA i : startKey = NoKey \/ SKLess(i.SK, startKey[2]))

\* One Query call evaluates n of the items left: at least one if any is left,
\* at most Limit, and possibly fewer than are left (the 1 MB page). It
\* returns a LastEvaluatedKey whenever it stopped before the end, and may
\* return one when it stopped exactly at the end.
QueryResponses(rest, Limit) ==
    IF rest = <<>>
    THEN {[Evaluated |-> <<>>, LastEvaluatedKey |-> NoKey]}
    ELSE UNION {
           {[Evaluated |-> SubSeq(rest, 1, n), LastEvaluatedKey |-> k] :
               k \in IF n < Len(rest) THEN {KeyOf(rest[n])} ELSE {KeyOf(rest[n]), NoKey}} :
           n \in 1..Min(Len(rest), Limit)}

\* Query on the table, 'PK = :pk AND begins_with(SK, :sk)', ScanIndexForward false.
QueryOrg(orgId, startKey, Limit) ==
    QueryResponses(AfterKey(SortBySKDesc(OrgPartition(table, orgId)), startKey), Limit)

\* No Limit parameter: only the page size cuts the answer.
NoLimit == Cardinality(table) + 1

\* --------------------------------------------------- BackupRepository.create
\* create(input) on its own, between two reads: time has passed or not since
\* the clock was last read (now), a uuid is drawn, the PutCommand is sent.
RepoCreate(orgId, g, now) ==
    /\ nextUuid <= MaxCreates
    /\ rd.pc = "idle"
    /\ now >= clock
    /\ clock' = now
    /\ LET json == JsonStringify(nrDash[g])
           c == [IdleCall EXCEPT !.orgId = orgId, !.dashboardGuid = g,
                                 !.dashboardJson = json,
                                 !.timestamp = now,
                                 !.s3Key = GenerateBackupKey(orgId, AccountOf(g), g, now),
                                 !.checksum = Sha256(json),
                                 !.sizeBytes = ByteLength(json)]
           item == BackupItem(CreateInput(c), now, nextUuid)
       IN /\ table' = PutItem(table, item)
          /\ created' = created \cup {[backup |-> MapToBackup(item), by |-> "repo", body |-> NoKey]}
    /\ nextUuid' = nextUuid + 1
    /\ UNCHANGED <<nrDash, nrEdits, s3, apiKeys, calls, readVars, serviceVars, adminVars, queueVars>>

\* ----------------------------------------------------------- repository reads
StartRead(op, orgId) ==
    [IdleRead EXCEPT !.op = op, !.pc = "run", !.orgId = orgId]

\* A caller that has just listed the org with listByOrg may go on to count or
\* page through the same org: it keeps the list it got.
CanStart(orgId) ==
    \/ rd.pc = "idle"
    \/ rd.pc = "done" /\ rd.op = "listByOrg" /\ rd.orgId = orgId

Listed ==
    IF rd.pc = "done" /\ rd.op = "listByOrg"
    THEN [maxItems |-> rd.maxItems, data |-> rd.result]
    ELSE Null

MapAll(items) == [k \in 1..Len(items) |-> MapToBackup(items[k])]

\* findById(orgId, snapshotId) is called.
FindByIdStart(orgId, snapshotId) ==
    /\ rd.pc = "idle"
    /\ rd' = [StartRead("findById", orgId) EXCEPT !.snapshotId = snapshotId]
    /\ UNCHANGED <<worldVars, storeVars, calls, serviceVars, adminVars, queueVars>>

\* Mutant of FindByIdCandidates: the key condition does not name the partition.
FindByIdCandidates_AnyPartition(orgId) == SortBySKDesc(table)

\* The items the key condition of findById's Query selects, in scan order.
FindByIdCandidates(orgId) == SortBySKDesc(OrgPartition(table, orgId))

\* Mutant of FindByIdStep: one Query, its first item or null, no continuation.
FindByIdStep_OnePage ==
    /\ rd.pc = "run" /\ rd.op = "findById"
    /\ \E resp \in QueryResponses(
                     AfterKey(FindByIdCandidates(rd.orgId), rd.lastEvaluatedKey), NoLimit) :
         LET Items == SelectSeq(resp.Evaluated, LAMBDA i : i.snapshotId = rd.snapshotId)
         IN rd' = IF Len(Items) > 0
                  THEN [rd EXCEPT !.pc = "done", !.result = MapToBackup(Items[1])]
                  ELSE [rd EXCEPT !.pc = "done", !.result = Null]
    /\ UNCHANGED <<worldVars, storeVars, calls, serviceVars, adminVars, queueVars>>

\* One turn of findById's do-while: a Query with FilterExpression
\* 'snapshotId = :snapshotId'; the filter applies to the items evaluated.
FindByIdStep ==
    /\ rd.pc = "run" /\ rd.op = "findById"
    /\ \E resp \in QueryResponses(
                     AfterKey(FindByIdCandidates(rd.orgId), rd.lastEvaluatedKey), NoLimit) :
         LET Items == SelectSeq(resp.Evaluated, LAMBDA i : i.snapshotId = rd.snapshotId)
             r == rd
         IN rd' = IF Len(Items) > 0
                  THEN [r EXCEPT !.pc = "done", !.result = MapToBackup(Items[1])]
                  ELSE IF resp.LastEvaluatedKey # NoKey
                  THEN [r EXCEPT !.lastEvaluatedKey = resp.LastEvaluatedKey]
                  ELSE [r EXCEPT !.pc = "done", !.result = Null]
    /\ UNCHANGED <<worldVars, storeVars, calls, serviceVars, adminVars, queueVars>>

\* Mutant of DashboardHistory: ScanIndexForward left at its default (ascending).
RECURSIVE Reverse(_)
Reverse(s) == IF s = <<>> THEN <<>> ELSE Reverse(Tail(s)) \o <<Head(s)>>

DashboardHistory_Ascending(orgId, g) ==
    Reverse(SortByGSI1SKDesc({i \in table : i.GSI1PK = <<"ORG", orgId, "DASHBOARD", g>>}))

\* Query on GSI1, 'GSI1PK = :pk', ScanIndexForward false.
DashboardHistory(orgId, g) ==
    SortByGSI1SKDesc({i \in table : i.GSI1PK = <<"ORG", orgId, "DASHBOARD", g>>})

\* listByDashboard: one Query with Limit, its Items mapped.
ListByDashboardResults(orgId, g, limit) ==
    {MapAll(resp.Evaluated) : resp \in QueryResponses(DashboardHistory(orgId, g), limit)}

ListByDashboard(orgId, g, limit) ==
    /\ rd.pc = "idle"
    /\ \E res \in ListByDashboardResults(orgId, g, limit) :
         rd' = [StartRead("listByDashboard", orgId) EXCEPT
                  !.pc = "done", !.dashboardGuid = g, !.limit = limit,
                  !.result = res]
    /\ UNCHANGED <<worldVars, storeVars, calls, serviceVars, adminVars, queueVars>>

\* getLatestByDashboard: listByDashboard with limit 1, then backups[0] || null.
GetLatestByDashboard(orgId, g) ==
    /\ rd.pc = "idle"
    /\ \E backups \in ListByDashboardResults(orgId, g, 1) :
         rd' = [StartRead("getLatestByDashboard", orgId) EXCEPT
                  !.pc = "done", !.dashboardGuid = g, !.limit = 1,
                  !.result = IF Len(backups) > 0 THEN backups[1] ELSE Null]
    /\ UNCHANGED <<worldVars, storeVars, calls, serviceVars, adminVars, queueVars>>

\* listByOrg(orgId, maxItems) is called.
ListByOrgStart(orgId, maxItems) ==
    /\ rd.pc = "idle"
    /\ rd' = [StartRead("listByOrg", orgId) EXCEPT !.maxItems = maxItems]
    /\ UNCHANGED <<worldVars, storeVars, calls, serviceVars, adminVars, queueVars>>

\* One turn of listByOrg's do-while.
ListByOrgStep ==
    /\ rd.pc = "run" /\ rd.op = "listByOrg"
    /\ \E resp \in QueryOrg(rd.orgId, rd.lastEvaluatedKey, NoLimit) :
         LET allItems == rd.allItems \o resp.Evaluated
             r == [rd EXCEPT !.allItems = allItems]
             stop == Len(allItems) >= rd.maxItems \/ resp.LastEvaluatedKey = NoKey
             result == MapAll(Take(allItems, rd.maxItems))
         IN rd' = IF stop
                  THEN [r EXCEPT !.pc = "done", !.result = result]
                  ELSE [r EXCEPT !.lastEvaluatedKey = resp.LastEvaluatedKey]
    /\ UNCHANGED <<worldVars, storeVars, calls, serviceVars, adminVars, queueVars>>

\* countByOrg(orgId) is called.
CountByOrgStart(orgId) ==
    /\ CanStart(orgId)
    /\ rd' = [StartRead("countByOrg", orgId) EXCEPT !.listed = Listed]
    /\ UNCHANGED <<worldVars, storeVars, calls, serviceVars, adminVars, queueVars>>

\* Mutant of CountByOrgStep: one Query, its Count returned, no continuation.
CountByOrgStep_OnePage ==
    /\ rd.pc = "run" /\ rd.op = "countByOrg"
    /\ \E resp \in QueryOrg(rd.orgId, rd.lastEvaluatedKey, NoLimit) :
         rd' = [rd EXCEPT !.pc = "done",
                          !.totalCount = Len(resp.Evaluated),
                          !.result = Len(resp.Evaluated)]
    /\ UNCHANGED <<worldVars, storeVars, calls, serviceVars, adminVars, queueVars>>

\* One turn of countByOrg's do-while: Select COUNT, Count added up.
CountByOrgStep ==
    /\ rd.pc = "run" /\ rd.op = "countByOrg"
    /\ \E resp \in QueryOrg(rd.orgId, rd.lastEvaluatedKey, NoLimit) :
         LET totalCount == rd.totalCount + Len(resp.Evaluated)
             r == [rd EXCEPT !.totalCount = totalCount]
         IN rd' = IF resp.LastEvaluatedKey # NoKey
                  THEN [r EXCEPT !.lastEvaluatedKey = resp.LastEvaluatedKey]
                  ELSE [r EXCEPT !.pc = "done", !.result = totalCount]
    /\ UNCHANGED <<worldVars, storeVars, calls, serviceVars, adminVars, queueVars>>

\* Mutant of SkipCount: the pages are counted from 0.
SkipCount_FromZero(page, limit) == page * limit

\* const skipCount = (page - 1) * limit
SkipCount(page, limit) == (page - 1) * limit

\* listByOrgPaginated(orgId, page, limit) is called.
ListByOrgPaginatedStart(orgId, page, limit) ==
    /\ CanStart(orgId)
    /\ rd' = [StartRead("listByOrgPaginated", orgId) EXCEPT
                !.page = page, !.firstPage = page, !.limit = limit,
                !.listed = IF page = 1 THEN Listed ELSE Null]
    /\ UNCHANGED <<worldVars, storeVars, calls, serviceVars, adminVars, queueVars>>

\* The for loop over result.Items: skip, collect, or see one item too many.
RECURSIVE ConsumeItems(_, _, _, _)
ConsumeItems(items, skipCount, limit, st) ==
    IF items = <<>> THEN st
    ELSE IF st.skipped < skipCount
    THEN ConsumeItems(Tail(items), skipCount, limit, [st EXCEPT !.skipped = @ + 1])
    ELSE IF Len(st.allItems) < limit
    THEN ConsumeItems(Tail(items), skipCount, limit,
                      [st EXCEPT !.allItems = Append(@, Head(items))])
    ELSE [st EXCEPT !.hasMoreData = TRUE]

\* The value listByOrgPaginated returns.
PaginatedResult(page, limit, skipCount, allItems, hasMoreData) ==
    [data |-> MapAll(allItems),
     pagination |->
        [page |-> page,
         limit |-> limit,
         total |-> skipCount + Len(allItems) + (IF hasMoreData THEN 1 ELSE 0),
         totalPages |-> IF hasMoreData THEN page + 1 ELSE page,
         hasNext |-> hasMoreData,
         hasPrev |-> page > 1]]

\* One turn of listByOrgPaginated's do-while.
ListByOrgPaginatedStep ==
    /\ rd.pc = "run" /\ rd.op = "listByOrgPaginated"
    /\ LET skipCount == SkipCount(rd.page, rd.limit) IN
       \E resp \in QueryOrg(rd.orgId, rd.lastEvaluatedKey,
                            rd.limit + skipCount - rd.skipped + 1) :
         LET st == ConsumeItems(resp.Evaluated, skipCount, rd.limit,
                                [skipped |-> rd.skipped, allItems |-> rd.allItems,
                                 hasMoreData |-> rd.hasMoreData])
             enough == Len(st.allItems) >= rd.limit
             hasMoreData == IF enough
                            THEN (resp.LastEvaluatedKey # NoKey \/ st.hasMoreData)
                            ELSE st.hasMoreData
             r == [rd EXCEPT !.skipped = st.skipped,
                             !.allItems = st.allItems, !.hasMoreData = hasMoreData]
             result == PaginatedResult(rd.page, rd.limit, skipCount, st.allItems, hasMoreData)
         IN rd' = IF enough \/ resp.LastEvaluatedKey = NoKey
                  THEN [r EXCEPT !.pc = "done", !.result = result,
                                 !.concat = @ \o result.data]
                  ELSE [r EXCEPT !.lastEvaluatedKey = resp.LastEvaluatedKey]
    /\ UNCHANGED <<worldVars, storeVars, calls, serviceVars, adminVars, queueVars>>

\* The caller's loop over the pages, from page 1: while hasNext, ask for the
\* next page and append its data.
GetBackupsNextPage ==
    /\ rd.pc = "done" /\ rd.op = "listByOrgPaginated"
    /\ rd.firstPage = 1
    /\ rd.result.pagination.hasNext
    /\ rd' = [StartRead("listByOrgPaginated", rd.orgId) EXCEPT
                !.page = rd.page + 1, !.firstPage = rd.firstPage, !.limit = rd.limit,
                !.concat = rd.concat, !.listed = rd.listed]
    /\ UNCHANGED <<worldVars, storeVars, calls, serviceVars, adminVars, queueVars>>

\* The caller takes the result.
Return ==
    /\ rd.pc = "done"
    /\ rd' = IdleRead
    /\ UNCHANGED <<worldVars, storeVars, calls, serviceVars, adminVars, queueVars>>

MaxItemsChoices == {MaxItemsSmall, DEFAULT_MAX_ITEMS}

NextQuery ==
    \/ \E orgId \in Orgs, g \in Guids, now \in 0..MaxClock : RepoCreate(orgId, g, now)
    \/ \E orgId \in Orgs, id \in 1..MaxCreates : FindByIdStart(orgId, id)
    \/ FindByIdStep
    \/ \E orgId \in Orgs, g \in Guids, limit \in 1..MaxLimit : ListByDashboard(orgId, g, limit)
    \/ \E orgId \in Orgs, g \in Guids : GetLatestByDashboard(orgId, g)
    \/ \E orgId \in Orgs, maxItems \in MaxItemsChoices : ListByOrgStart(orgId, maxItems)
    \/ ListByOrgStep
    \/ \E orgId \in Orgs : CountByOrgStart(orgId)
    \/ CountByOrgStep
    \/ \E orgId \in Orgs, page \in 1..MaxPage, limit \in 1..MaxLimit :
          ListByOrgPaginatedStart(orgId, page, limit)
    \/ ListByOrgPaginatedStep
    \/ GetBackupsNextPage
    \/ Return

SpecQuery == Init /\ [][NextQuery]_vars

\* ------------------------------------------------- the services' environment
\* No request of the client is in progress.
Quiet ==
    /\ rs.pc = "idle" /\ bt.pc = "idle" /\ rd.pc = "idle"
    /\ \A p \in Procs : calls[p].pc = "idle"

\* ApiKeyService.delete: the secret is deleted, then the record; when the
\* repository delete is rejected the record stays, without its secret.
ApiKeyDelete(orgId) ==
    /\ Quiet
    /\ apiKeys[orgId] # Null
    /\ \/ apiKeys' = [apiKeys EXCEPT ![orgId] = Null]
       \/ apiKeys[orgId].hasSecret /\ apiKeys' = [apiKeys EXCEPT ![orgId].hasSecret = FALSE]
    /\ UNCHANGED <<worldVars, table, s3, created, calls, readVars, serviceVars, adminVars, queueVars>>

\* ApiKeyService.validate: the status becomes INVALID when the secret is gone
\* or New Relic rejects the key, ACTIVE (with the accounts) when it accepts it.
ApiKeyValidate(orgId) ==
    /\ Quiet
    /\ apiKeys[orgId] # Null
    /\ \E valid \in IF apiKeys[orgId].hasSecret THEN BOOLEAN ELSE {FALSE} :
          /\ apiKeys[orgId].status # (IF valid THEN "ACTIVE" ELSE "INVALID")
          /\ apiKeys' = [apiKeys EXCEPT ![orgId].status = IF valid THEN "ACTIVE" ELSE "INVALID"]
    /\ UNCHANGED <<worldVars, table, s3, created, calls, readVars, serviceVars, adminVars, queueVars>>

\* An object leaves the Blob Store out of band (deleteObject, a lifecycle rule).
DeleteObject(k) ==
    /\ Quiet
    /\ k \in DOMAIN s3
    /\ s3' = [j \in DOMAIN s3 \ {k} |-> s3[j]]
    /\ UNCHANGED <<worldVars, table, apiKeys, created, calls, readVars, serviceVars, adminVars, queueVars>>

\* The client calls backupDashboard and, once it has settled, takes the outcome.
BackupRequest(p, orgId, g) ==
    /\ Quiet
    /\ nextUuid <= MaxBackups
    /\ StartBackup(p, orgId, g)

BackupReturn(p) ==
    /\ bt.pc = "idle"
    /\ calls[p].pc \in {"done", "failed"}
    /\ calls' = [calls EXCEPT ![p] = IdleCall]
    /\ UNCHANGED <<worldVars, storeVars, readVars, serviceVars, adminVars, queueVars>>

\* ------------------------------------------------ getBackup, getBackupContent
\* findById as a whole: the record of the org's partition that passes the
\* filter, whatever the paging of the loop, or null.
FindById(orgId, snapshotId) ==
    LET Items == SelectSeq(FindByIdCandidates(orgId), LAMBDA i : i.snapshotId = snapshotId)
    IN IF Len(Items) > 0 THEN MapToBackup(Items[1]) ELSE Null

\* How S3 answers a GetObjectCommand: the body, NoSuchKey, or another error.
GetObjectResponses(bucket, key) ==
    IF HasObject(bucket, key) THEN {"Body", "ServiceError"} ELSE {"NoSuchKey", "ServiceError"}

\* HTTP status of an error: statusCode of an AppError, 500 for any other.
StatusCodeOf(kind) ==
    CASE kind = "BadRequestError" -> 400
      [] kind = "NotFoundError" -> 404
      [] kind = "ExternalServiceError" -> 502
      [] OTHER -> 500

Thrown(r, kind) ==
    [r EXCEPT !.pc = "replied", !.error = kind, !.statusCode = StatusCodeOf(kind)]

\* Mutant of ContentOutcome: getObject rethrows NoSuchKey like any other error.
ContentOutcome_Rethrown(r, resp) ==
    LET backup == FindById(r.orgId, r.snapshotId) IN
    IF backup = Null THEN Thrown(r, "NotFoundError")
    ELSE IF resp \in {"ServiceError", "NoSuchKey"}
    THEN Thrown([r EXCEPT !.backup = backup, !.s3Response = resp], "S3Error")
    ELSE [r EXCEPT !.backup = backup, !.s3Response = resp,
                   !.content = GetObject(backup.s3Bucket, backup.s3Key)]

\* getBackupContent(orgId, snapshotId), S3 answering resp: getBackup throws
\* NotFound without a record; getObject returns null on NoSuchKey, which is
\* thrown as NotFound, and rethrows any other error.
ContentOutcome(r, resp) ==
    LET backup == FindById(r.orgId, r.snapshotId) IN
    IF backup = Null THEN Thrown(r, "NotFoundError")
    ELSE IF resp = "ServiceError"
    THEN Thrown([r EXCEPT !.backup = backup, !.s3Response = resp], "S3Error")
    ELSE IF resp = "NoSuchKey"
    THEN Thrown([r EXCEPT !.backup = backup, !.s3Response = resp], "NotFoundError")
    ELSE [r EXCEPT !.backup = backup, !.s3Response = resp,
                   !.content = GetObject(backup.s3Bucket, backup.s3Key)]

\* The client calls getBackupContent and gets the bytes or the error.
GetBackupContent(orgId, snapshotId) ==
    /\ Quiet
    /\ LET r == [IdleRestore EXCEPT !.op = "getBackupContent", !.orgId = orgId,
                                    !.snapshotId = snapshotId]
           backup == FindById(orgId, snapshotId)
       IN \E resp \in IF backup = Null THEN {None}
                       ELSE GetObjectResponses(backup.s3Bucket, backup.s3Key) :
            rs' = [ContentOutcome(r, resp) EXCEPT !.pc = "replied"]
    /\ UNCHANGED <<worldVars, storeVars, calls, readVars, bt, adminVars, queueVars>>

\* ------------------------------------------------------------ RestoreService
\* delete cleaned[...]: a copy of the object without the properties named.
Without(obj, keys) == [k \in DOMAIN obj \ keys |-> obj[k]]

CleanWidget(widget) == Without(widget, {"id"})

CleanPage(page) ==
    LET cleanedPage == Without(page, {"guid"}) IN
    IF "widgets" \in DOMAIN cleanedPage
    THEN [cleanedPage EXCEPT
            !.widgets = [j \in 1..Len(page.widgets) |-> CleanWidget(page.widgets[j])]]
    ELSE cleanedPage

\* Mutant of CleanDashboardForRestore: the pages are copied as they are.
CleanDashboardForRestore_TopLevelOnly(dashboard) ==
    Without(dashboard, {"guid", "accountId", "createdAt", "updatedAt"})

\* cleanDashboardForRestore(dashboard)
CleanDashboardForRestore(dashboard) ==
    LET cleaned == Without(dashboard, {"guid", "accountId", "createdAt", "updatedAt"}) IN
    IF "pages" \in DOMAIN cleaned
    THEN [cleaned EXCEPT
            !.pages = [i \in 1..Len(dashboard.pages) |-> CleanPage(dashboard.pages[i])]]
    ELSE cleaned

\* if (newName) dashboardData.name = newName
Rename(dashboardData, newName) ==
    IF newName # None THEN [dashboardData EXCEPT !.name = newName] ELSE dashboardData

\* nrClient.createDashboard(targetAccount, JSON.stringify(cleanedDashboard)):
\* the variables of the mutation, the dashboard parsed back from the string.
CreateDashboardCall(r, backup, content) ==
    LET dashboardData == Rename(JsonParse(content), r.newName)
        targetAccount == IF r.targetAccountId # None THEN r.targetAccountId
                         ELSE backup.accountId
    IN [op |-> "createDashboard", accountId |-> targetAccount, guid |-> None,
        dashboard |-> JsonParse(JsonStringify(CleanDashboardForRestore(dashboardData)))]

\* Mutant of UpdateDashboardCall: the dashboard named in the route is updated.
UpdateDashboardCall_RouteGuid(r, backup, content) ==
    [op |-> "updateDashboard", accountId |-> None, guid |-> r.guid,
     dashboard |-> JsonParse(JsonStringify(JsonParse(content)))]

\* nrClient.updateDashboard(backup.dashboardGuid, JSON.stringify(dashboardData))
UpdateDashboardCall(r, backup, content) ==
    [op |-> "updateDashboard", accountId |-> None, guid |-> backup.dashboardGuid,
     dashboard |-> JsonParse(JsonStringify(JsonParse(content)))]

\* Mutant of RestoreRead: the payload is sent before the client is resolved.
RestoreRead_ClientLast(r) ==
    LET backup == FindById(r.orgId, r.snapshotId) IN
    {LET out == ContentOutcome(r, resp)
         thrown == ClientError(r.orgId)
         sent == IF r.restoreInPlace
                 THEN UpdateDashboardCall(r, backup, out.content)
                 ELSE CreateDashboardCall(r, backup, out.content)
     IN IF out.error # None THEN out
        ELSE IF thrown # None THEN Thrown([out EXCEPT !.sent = sent], thrown)
        ELSE [out EXCEPT !.pc = "write", !.sent = sent] :
     resp \in IF backup = Null THEN {None}
              ELSE GetObjectResponses(backup.s3Bucket, backup.s3Key)}

\* restoreDashboard / restoreInPlace up to the external call: getBackup,
\* getBackupContent, JSON.parse, getNewRelicClient, the payload prepared.
\* The outcomes, one for each answer of S3.
RestoreRead(r) ==
    LET backup == FindById(r.orgId, r.snapshotId) IN
    {LET out == ContentOutcome(r, resp)
         thrown == ClientError(r.orgId)
     IN IF out.error # None THEN out
        ELSE IF thrown # None THEN Thrown(out, thrown)
        ELSE [out EXCEPT
                !.pc = "write",
                !.sent = IF r.restoreInPlace
                         THEN UpdateDashboardCall(r, backup, out.content)
                         ELSE CreateDashboardCall(r, backup, out.content)] :
     resp \in IF backup = Null THEN {None}
              ELSE GetObjectResponses(backup.s3Bucket, backup.s3Key)}

\* POST /organizations/:orgId/dashboards/:guid/restore?snapshotId=... with its
\* body; snapshotId 0 stands for a request without the query parameter. Of an
\* in-place request the route hands on orgId, snapshotId and apiKeyId only.
\* The handler runs up to the external call of the service.
RestoreRequest(orgId, guid, snapshotId, targetAccountId, newName, restoreInPlace) ==
    /\ Quiet
    /\ restoreInPlace => (targetAccountId = None /\ newName = None)
    /\ LET r == [IdleRestore EXCEPT
                   !.op = "restore", !.orgId = orgId, !.guid = guid,
                   !.snapshotId = snapshotId, !.targetAccountId = targetAccountId,
                   !.newName = newName, !.restoreInPlace = restoreInPlace]
       IN IF snapshotId = 0 THEN rs' = Thrown(r, "BadRequestError")
          ELSE rs' \in RestoreRead(r)
    /\ UNCHANGED <<worldVars, storeVars, calls, readVars, bt, adminVars, queueVars>>

\* Mutant of RestoreResultOf: the error of the external call is thrown again.
RestoreResultOf_Rethrown(r, nrResponse) ==
    IF nrResponse = "ok"
    THEN [r EXCEPT !.pc = "replied", !.nrResponse = nrResponse,
                   !.result = [success |-> TRUE, message |-> "restored",
                               newDashboardGuid |-> IF r.sent.op = "createDashboard"
                                                    THEN "NEW" ELSE r.backup.dashboardGuid],
                   !.statusCode = 200]
    ELSE Thrown([r EXCEPT !.nrResponse = nrResponse], "ExternalServiceError")

\* The try / catch around the external call and the route's reply:
\* reply.status(result.success ? 200 : 400).send(result).
RestoreResultOf(r, nrResponse) ==
    LET result == IF nrResponse = "ok"
                  THEN [success |-> TRUE, message |-> "restored",
                        newDashboardGuid |-> IF r.sent.op = "createDashboard"
                                             THEN "NEW" ELSE r.backup.dashboardGuid]
                  ELSE [success |-> FALSE, message |-> "Restore failed",
                        newDashboardGuid |-> None]
    IN [r EXCEPT !.pc = "replied", !.nrResponse = nrResponse, !.result = result,
                 !.statusCode = IF result.success THEN 200 ELSE 400]

\* The external call settles: New Relic performs the mutation, reports
\* errors, or cannot be reached. An update replaces the dashboard's
\* definition; a created dashboard gets a guid of its own, outside Guids.
RestoreWrite ==
    /\ rs.pc = "write"
    /\ \E nrResponse \in {"ok", "errors", "unreachable"} :
          /\ rs' = RestoreResultOf(rs, nrResponse)
          /\ nrDash' = IF nrResponse = "ok" /\ rs.sent.op = "updateDashboard"
                        THEN [nrDash EXCEPT ![rs.sent.guid] = rs.sent.dashboard]
                        ELSE nrDash
    /\ UNCHANGED <<clock, nextUuid, nrEdits, storeVars, calls, readVars, bt, adminVars, queueVars>>

\* The client has the response.
RestoreReturn ==
    /\ rs.pc = "replied"
    /\ rs' = IdleRestore
    /\ UNCHANGED <<worldVars, storeVars, calls, readVars, bt, adminVars, queueVars>>

TargetAccountChoices == {None, "999"}
NewNameChoices == {None, "Restored"}

NextRestore ==
    \/ \E orgId \in Orgs, g \in Guids : BackupRequest("p1", orgId, g)
    \/ GetNewRelicClient("p1")
    \/ GetDashboardJson("p1")
    \/ PutObject("p1")
    \/ CreateBackup("p1")
    \/ CountBackups("p1")
    \/ UpdateApiKey("p1")
    \/ BackupReturn("p1")
    \/ \E orgId \in Orgs : ApiKeyValidate(orgId)
    \/ \E k \in DOMAIN s3 : DeleteObject(k)
    \/ \E orgId \in Orgs, id \in 1..MaxBackups : GetBackupContent(orgId, id)
    \/ \E orgId \in Orgs, g \in Guids, id \in 0..MaxBackups,
          targetAccountId \in TargetAccountChoices, newName \in NewNameChoices,
          restoreInPlace \in BOOLEAN :
          RestoreRequest(orgId, g, id, targetAccountId, newName, restoreInPlace)
    \/ RestoreWrite
    \/ RestoreReturn

SpecRestore == Init /\ [][NextRestore]_vars

\* Restores of snapshots whose record, payload or credential may be gone.
NextRestoreGuard ==
    \/ \E orgId \in Orgs, g \in Guids : BackupRequest("p1", orgId, g)
    \/ GetNewRelicClient("p1")
    \/ GetDashboardJson("p1")
    \/ PutObject("p1")
    \/ CreateBackup("p1")
    \/ CountBackups("p1")
    \/ UpdateApiKey("p1")
    \/ BackupReturn("p1")
    \/ \E orgId \in Orgs : ApiKeyDelete(orgId)
    \/ \E orgId \in Orgs : ApiKeyValidate(orgId)
    \/ \E k \in DOMAIN s3 : DeleteObject(k)
    \/ \E orgId \in Orgs, id \in 0..MaxBackups, restoreInPlace \in BOOLEAN :
          RestoreRequest(orgId, "D1", id, None, None, restoreInPlace)
    \/ RestoreWrite
    \/ RestoreReturn

SpecRestoreGuard == Init /\ [][NextRestoreGuard]_vars

\* ------------------------------------------- BackupService.backupAllDashboards
\* The invocation of backupDashboard the batch awaits.
BatchProc == "p1"

\* nrClient.listDashboards(accId): the dashboards of the account.
ListDashboards(accId) ==
    SelectSeq(<<"D1", "D2">>, LAMBDA g : AccountOf(g) = accId /\ nrDash[g] # Null)

\* Mutant of AccountsToBackup: the accountId of the input is not looked at.
AccountsToBackup_All(accountId, apiKey) == apiKey.newRelicAccountIds

\* const accountsToBackup = accountId ? [accountId] : apiKey.newRelicAccountIds
AccountsToBackup(accountId, apiKey) ==
    IF accountId # None THEN <<accountId>> ELSE apiKey.newRelicAccountIds

\* backupAllDashboards({orgId, apiKeyId, accountId}) up to its loop:
\* getNewRelicClient, findById of the key, the accounts chosen.
BatchStart(orgId, accountId) ==
    /\ Quiet
    /\ nextUuid <= MaxBackups
    /\ LET b == [IdleBatch EXCEPT !.orgId = orgId, !.accountId = accountId]
           thrown == ClientError(orgId)
       IN bt' = IF thrown # None THEN [b EXCEPT !.pc = "failed", !.error = thrown]
                ELSE [b EXCEPT !.pc = "list", !.acc = 1,
                               !.accountsToBackup =
                                   AccountsToBackup(accountId, apiKeys[orgId])]
    /\ UNCHANGED <<worldVars, storeVars, calls, readVars, rs, adminVars, queueVars>>

\* The outer loop: the next account's dashboards are listed, a rejection of
\* listDashboards being caught and logged; after the last account the
\* results are returned.
BatchList ==
    /\ bt.pc = "list"
    /\ IF bt.acc > Len(bt.accountsToBackup)
       THEN bt' = [bt EXCEPT !.pc = "done"]
       ELSE \/ bt' = [bt EXCEPT !.acc = @ + 1, !.listFailures = @ + 1]
            \/ LET dashboards == ListDashboards(bt.accountsToBackup[bt.acc]) IN
               bt' = IF dashboards = <<>> THEN [bt EXCEPT !.acc = @ + 1]
                     ELSE [bt EXCEPT !.pc = "backup", !.dashboards = dashboards,
                                     !.listed = @ \o dashboards]
    /\ UNCHANGED <<worldVars, storeVars, calls, readVars, rs, adminVars, queueVars>>

\* The inner loop calls backupDashboard for the next dashboard.
BatchBackup ==
    /\ bt.pc = "backup"
    /\ calls[BatchProc].pc = "idle"
    /\ calls' = [calls EXCEPT ![BatchProc].pc = "getClient",
                              ![BatchProc].orgId = bt.orgId,
                              ![BatchProc].dashboardGuid = Head(bt.dashboards)]
    /\ bt' = [bt EXCEPT !.pc = "await", !.attempted = Append(@, Head(bt.dashboards))]
    /\ UNCHANGED <<worldVars, storeVars, readVars, rs, adminVars, queueVars>>

\* backupDashboard has settled: its result is pushed, or its error caught
\* and pushed to errors; the loops go on.
BatchCollect ==
    /\ bt.pc = "await"
    /\ calls[BatchProc].pc \in {"done", "failed"}
    /\ LET c == calls[BatchProc]
           rest == Tail(bt.dashboards)
           b == [bt EXCEPT
                   !.dashboards = rest,
                   !.pc = IF rest = <<>> THEN "list" ELSE "backup",
                   !.acc = IF rest = <<>> THEN @ + 1 ELSE @,
                   !.snapshots = IF c.backup # Null THEN @ \cup {c.backup.snapshotId} ELSE @,
                   !.writes = IF c.putDone THEN @ + 1 ELSE @]
       IN bt' = IF c.pc = "done"
                THEN [b EXCEPT !.results = Append(@, [snapshotId |-> c.backup.snapshotId,
                                                      dashboardGuid |-> c.dashboardGuid])]
                ELSE [b EXCEPT !.errors = Append(@, [dashboardGuid |-> c.dashboardGuid,
                                                     error |-> c.error])]
    /\ calls' = [calls EXCEPT ![BatchProc] = IdleCall]
    /\ UNCHANGED <<worldVars, storeVars, readVars, rs, adminVars, queueVars>>

\* The caller has the results, or the error.
BatchReturn ==
    /\ bt.pc \in {"done", "failed"}
    /\ bt' = IdleBatch
    /\ UNCHANGED <<worldVars, storeVars, calls, readVars, rs, adminVars, queueVars>>

AccountChoices == {None, "111", "222"}

NextBatch ==
    \/ \E orgId \in Orgs : ApiKeyValidate(orgId)
    \/ \E orgId \in Orgs, accountId \in AccountChoices : BatchStart(orgId, accountId)
    \/ BatchList
    \/ BatchBackup
    \/ GetNewRelicClient(BatchProc)
    \/ GetDashboardJson(BatchProc)
    \/ PutObject(BatchProc)
    \/ CreateBackup(BatchProc)
    \/ CountBackups(BatchProc)
    \/ UpdateApiKey(BatchProc)
    \/ BatchCollect
    \/ BatchReturn

SpecBatch == Init /\ [][NextBatch]_vars

\* ------------------------------------------- backups under changing credentials
NextCredential ==
    \/ \E orgId \in Orgs : ApiKeyDelete(orgId)
    \/ \E orgId \in Orgs : ApiKeyValidate(orgId)
    \/ \E orgId \in Orgs, g \in Guids : BackupRequest("p1", orgId, g)
    \/ GetNewRelicClient("p1")
    \/ GetDashboardJson("p1")
    \/ PutObject("p1")
    \/ CreateBackup("p1")
    \/ CountBackups("p1")
    \/ UpdateApiKey("p1")
    \/ BackupReturn("p1")

SpecCredential == Init /\ [][NextCredential]_vars

\* ------------------------------------------ RestoreService.compareWithCurrent
\* A user changes some of the dashboard's fields in New Relic.
NRChange(g, fields) ==
    /\ Quiet
    /\ nrEdits < MaxEdits
    /\ nrDash[g] # Null
    /\ LET e == nrDash[g]
           v == Len(e.pages) + 1
       IN nrDash' = [nrDash EXCEPT ![g] =
            [k \in DOMAIN e \cup (fields \ {"pages"}) |->
                CASE k = "name" /\ k \in fields -> "Renamed"
                  [] k = "description" /\ k \in fields -> "Text"
                  [] k = "variables" /\ k \in fields -> << [name |-> "var"] >>
                  [] k = "pages" /\ k \in fields -> [i \in 1..v |-> DashboardPage(g, i)]
                  [] k = "updatedAt" -> e.updatedAt + 1
                  [] OTHER -> e[k]]]
    /\ nrEdits' = nrEdits + 1
    /\ UNCHANGED <<clock, nextUuid, storeVars, calls, readVars, serviceVars, adminVars, queueVars>>

\* A user deletes the dashboard in New Relic.
NRDelete(g) ==
    /\ Quiet
    /\ nrEdits < MaxEdits
    /\ nrDash[g] # Null
    /\ nrDash' = [nrDash EXCEPT ![g] = Null]
    /\ nrEdits' = nrEdits + 1
    /\ UNCHANGED <<clock, nextUuid, storeVars, calls, readVars, serviceVars, adminVars, queueVars>>

\* obj[key] of JavaScript: undefined when the object has no such property.
Prop(obj, key) == IF key \in DOMAIN obj THEN obj[key] ELSE "undefined"

\* JSON.stringify(obj[key]) for a property that holds an array of objects:
\* whether there is a text, and the text; of undefined there is none.
StringifyProp(obj, key) ==
    IF key \in DOMAIN obj
    THEN <<TRUE, [j \in 1..Len(obj[key]) |-> JsonStringify(obj[key][j])]>>
    ELSE <<FALSE, <<>>>>

\* The comparisons of compareWithCurrent, in their order: name and
\* description by !==, pages and variables by their JSON.stringify.
ChangedFields(backupDashboard, currentDashboard) ==
    SelectSeq(<<"name", "description", "pages", "variables">>,
              LAMBDA f : IF f \in {"pages", "variables"}
                         THEN StringifyProp(backupDashboard, f) # StringifyProp(currentDashboard, f)
                         ELSE Prop(backupDashboard, f) # Prop(currentDashboard, f))

\* nrClient.getDashboard(guid), NerdGraph answering nrResponse: the entity
\* (null when there is none), and null as well when query() threw.
GetDashboard(guid, nrResponse) ==
    IF nrResponse = "error" THEN Null ELSE nrDash[guid]

\* The CompareResult for the live dashboard that getDashboard returned.
CompareResultOf(r, backup, backupDashboard, currentDashboard) ==
    IF currentDashboard = Null
    THEN [snapshotId |-> r.snapshotId, dashboardGuid |-> backup.dashboardGuid,
          hasChanges |-> TRUE, currentVersion |-> Null,
          backupVersion |-> backupDashboard,
          changedFields |-> <<"Dashboard no longer exists in New Relic">>]
    ELSE LET changedFields == ChangedFields(backupDashboard, currentDashboard) IN
         [snapshotId |-> r.snapshotId, dashboardGuid |-> backup.dashboardGuid,
          hasChanges |-> Len(changedFields) > 0, currentVersion |-> currentDashboard,
          backupVersion |-> backupDashboard,
          changedFields |-> changedFields]

\* compareWithCurrent(orgId, snapshotId, apiKeyId): getBackup,
\* getBackupContent, JSON.parse, getNewRelicClient, getDashboard, the diff.
CompareWithCurrent(orgId, snapshotId) ==
    /\ Quiet
    /\ LET r == [IdleRestore EXCEPT !.op = "compare", !.orgId = orgId,
                                    !.snapshotId = snapshotId]
           backup == FindById(orgId, snapshotId)
       IN \E resp \in IF backup = Null THEN {None}
                       ELSE GetObjectResponses(backup.s3Bucket, backup.s3Key),
             nrResponse \in {"data", "error"} :
            LET out == ContentOutcome(r, resp)
                thrown == ClientError(orgId)
            IN rs' = IF out.error # None THEN out
                     ELSE IF thrown # None THEN Thrown(out, thrown)
                     ELSE [out EXCEPT
                             !.pc = "replied", !.nrResponse = nrResponse,
                             !.statusCode = 200,
                             !.result = CompareResultOf(r, backup, JsonParse(out.content),
                                           GetDashboard(backup.dashboardGuid, nrResponse))]
    /\ UNCHANGED <<worldVars, storeVars, calls, readVars, bt, adminVars, queueVars>>

ChangeChoices == SUBSET {"name", "description", "pages", "variables"} \ {{}}

NextCompare ==
    \/ \E g \in Guids, fields \in ChangeChoices : NRChange(g, fields)
    \/ \E g \in Guids : NRDelete(g)
    \/ \E orgId \in Orgs, g \in Guids : BackupRequest("p1", orgId, g)
    \/ GetNewRelicClient("p1")
    \/ GetDashboardJson("p1")
    \/ PutObject("p1")
    \/ CreateBackup("p1")
    \/ CountBackups("p1")
    \/ UpdateApiKey("p1")
    \/ BackupReturn("p1")
    \/ \E orgId \in Orgs, id \in 1..MaxBackups : CompareWithCurrent(orgId, id)
    \/ RestoreReturn

SpecCompare == Init /\ [][NextCompare]_vars

\* ------------------------------------------- BackupService.listBackupsByOrg
\* The characters of the strings that dashboards are named and identified by.
CharsOf(str) ==
    CASE str = "Alpha" -> <<"A", "l", "p", "h", "a">>
      [] str = "Beta" -> <<"B", "e", "t", "a">>
      [] str = "D1" -> <<"D", "1">>
      [] str = "D2" -> <<"D", "2">>

LowerOf(ch) ==
    CASE ch = "A" -> "a" [] ch = "B" -> "b" [] ch = "D" -> "d"
      [] ch = "L" -> "l" [] ch = "P" -> "p" [] OTHER -> ch

\* String.prototype.toLowerCase
ToLowerCase(str) == [i \in 1..Len(str) |-> LowerOf(str[i])]

\* String.prototype.trim: the white space at both ends is removed.
RECURSIVE Trim(_)
Trim(str) ==
    IF str = <<>> THEN str
    ELSE IF Head(str) = " " THEN Trim(Tail(str))
    ELSE IF str[Len(str)] = " " THEN Trim(SubSeq(str, 1, Len(str) - 1))
    ELSE str

\* String.prototype.includes
Includes(str, searchString) ==
    \E i \in 0..(Len(str) - Len(searchString)) :
        SubSeq(str, i + 1, i + Len(searchString)) = searchString

\* The predicate of allBackups.filter.
MatchesSearch(backup, searchLower) ==
    \/ Includes(ToLowerCase(CharsOf(backup.dashboardName)), searchLower)
    \/ Includes(ToLowerCase(CharsOf(backup.dashboardGuid)), searchLower)

\* if (search && search.trim()): '' and undefined are both falsy.
HasSearch(search) == search # <<>> /\ Trim(search) # <<>>

\* The response of the search branch: the filtered list sliced, its length
\* the total.
SearchResult(allBackups, page, limit, search) ==
    LET searchLower == Trim(ToLowerCase(search))
        filtered == SelectSeq(allBackups, LAMBDA b : MatchesSearch(b, searchLower))
        start == (page - 1) * limit
        end == start + limit
    IN [data |-> SubSeq(filtered, start + 1, Min(end, Len(filtered))),
        pagination |->
           [page |-> page,
            limit |-> limit,
            total |-> Len(filtered),
            totalPages |-> (Len(filtered) + limit - 1) \div limit,
            hasNext |-> end < Len(filtered),
            hasPrev |-> page > 1]]

\* listBackupsByOrg(orgId, {page, limit}, search) is called: with a search
\* term listByOrg(orgId, 1000) is awaited, without one listByOrgPaginated.
ListBackupsByOrgStart(orgId, page, limit, search) ==
    /\ rd.pc = "idle"
    /\ rd' = IF HasSearch(search)
             THEN [StartRead("listBackupsByOrg", orgId) EXCEPT
                     !.page = page, !.limit = limit, !.search = search,
                     !.maxItems = SearchMaxItems]
             ELSE [StartRead("listByOrgPaginated", orgId) EXCEPT
                     !.page = page, !.firstPage = page, !.limit = limit,
                     !.search = search]
    /\ UNCHANGED <<worldVars, storeVars, calls, serviceVars, adminVars, queueVars>>

\* One turn of the do-while of the listByOrg that the search awaits; when the
\* loop ends the list is filtered and sliced.
ListBackupsByOrgStep ==
    /\ rd.pc = "run" /\ rd.op = "listBackupsByOrg"
    /\ \E resp \in QueryOrg(rd.orgId, rd.lastEvaluatedKey, NoLimit) :
         LET allItems == rd.allItems \o resp.Evaluated
             r == [rd EXCEPT !.allItems = allItems]
             stop == Len(allItems) >= rd.maxItems \/ resp.LastEvaluatedKey = NoKey
             allBackups == MapAll(Take(allItems, rd.maxItems))
         IN rd' = IF stop
                  THEN [r EXCEPT !.pc = "done",
                                 !.result = SearchResult(allBackups, rd.page, rd.limit, rd.search)]
                  ELSE [r EXCEPT !.lastEvaluatedKey = resp.LastEvaluatedKey]
    /\ UNCHANGED <<worldVars, storeVars, calls, serviceVars, adminVars, queueVars>>

SearchChoices == {<<>>, <<" ">>, <<"D", "1">>, <<" ", "L", "P", " ">>, <<"a">>}

NextSearch ==
    \/ \E orgId \in Orgs, g \in Guids, now \in 0..MaxClock : RepoCreate(orgId, g, now)
    \/ \E orgId \in Orgs, page \in 1..MaxPage, limit \in 1..MaxLimit, search \in SearchChoices :
          ListBackupsByOrgStart(orgId, page, limit, search)
    \/ ListBackupsByOrgStep
    \/ ListByOrgPaginatedStep
    \/ Return

SpecSearch == Init /\ [][NextSearch]_vars

\* ------------------------------------------- OrganizationService: members
\* What every step on the members leaves alone.
NotMembers ==
    <<worldVars, storeVars, calls, readVars, serviceVars, secrets, keyItems, kops, queueVars>>

MemberFail(p, kind) == [mops EXCEPT ![p].pc = "failed", ![p].error = kind]

\* addMember, removeMember or updateMemberRole is called; the organization
\* and the user exist.
MemberCall(p, op, userId, newRole) ==
    /\ mops[p].pc = "idle"
    /\ mops' = [mops EXCEPT ![p] = [IdleMemberOp EXCEPT
                  !.op = op, !.pc = "getMembership", !.userId = userId,
                  !.newRole = newRole]]
    /\ UNCHANGED <<members, NotMembers>>

\* The last-admin test applies to this call: the member is an ADMIN, and of
\* updateMemberRole the new role is another.
NeedsAdminCount(m) ==
    /\ m.membership = "ADMIN"
    /\ m.op = "updateMemberRole" => m.newRole # "ADMIN"

\* await orgRepository.getMembership(userId, orgId) and the test on it.
GetMembership(p) ==
    /\ mops[p].pc = "getMembership"
    /\ LET m == [mops[p] EXCEPT !.membership = members[mops[p].userId]] IN
       mops' = IF m.op = "addMember"
               THEN IF m.membership # None THEN MemberFail(p, "BadRequestError")
                    ELSE [mops EXCEPT ![p] = [m EXCEPT !.pc = "write"]]
               ELSE IF m.membership = None THEN MemberFail(p, "NotFoundError")
               ELSE IF NeedsAdminCount(m)
               THEN [mops EXCEPT ![p] = [m EXCEPT !.pc = "getMembers"]]
               ELSE [mops EXCEPT ![p] = [m EXCEPT !.pc = "write"]]
    /\ UNCHANGED <<members, NotMembers>>

\* members.filter((m) => m.role === 'ADMIN').length
AdminCount == Cardinality({u \in Users : members[u] = "ADMIN"})

\* if (adminCount <= 1) throw new ForbiddenError(...)
LastAdmin(adminCount) == adminCount <= 1

\* await orgRepository.getMembers(orgId), the admins counted and the test.
GetMembers(p) ==
    /\ mops[p].pc = "getMembers"
    /\ mops' = IF LastAdmin(AdminCount)
               THEN [MemberFail(p, "ForbiddenError") EXCEPT ![p].adminCount = AdminCount]
               ELSE [mops EXCEPT ![p].pc = "write", ![p].adminCount = AdminCount]
    /\ UNCHANGED <<members, NotMembers>>

\* await orgRepository.addMember(...): a PutCommand without condition.
AddMember(p) ==
    /\ mops[p].pc = "write" /\ mops[p].op = "addMember"
    /\ members' = [members EXCEPT ![mops[p].userId] = mops[p].newRole]
    /\ mops' = [mops EXCEPT ![p].pc = "done"]
    /\ UNCHANGED NotMembers

\* await orgRepository.removeMember(userId, orgId): a DeleteCommand.
RemoveMember(p) ==
    /\ mops[p].pc = "write" /\ mops[p].op = "removeMember"
    /\ members' = [members EXCEPT ![mops[p].userId] = None]
    /\ mops' = [mops EXCEPT ![p].pc = "done"]
    /\ UNCHANGED NotMembers

\* await orgRepository.updateMemberRole(...): an UpdateCommand with
\* ConditionExpression attribute_exists(PK).
UpdateMemberRole(p) ==
    /\ mops[p].pc = "write" /\ mops[p].op = "updateMemberRole"
    /\ IF members[mops[p].userId] = None
       THEN /\ mops' = MemberFail(p, "ConditionalCheckFailedException")
            /\ UNCHANGED members
       ELSE /\ members' = [members EXCEPT ![mops[p].userId] = mops[p].newRole]
            /\ mops' = [mops EXCEPT ![p].pc = "done"]
    /\ UNCHANGED NotMembers

\* The caller has the membership, or the error.
MemberReturn(p) ==
    /\ mops[p].pc \in {"done", "failed"}
    /\ mops' = [mops EXCEPT ![p] = IdleMemberOp]
    /\ UNCHANGED <<members, NotMembers>>

Roles == {"ADMIN", "USER"}

MemberStep(p) ==
    \/ \E userId \in Users, role \in Roles : MemberCall(p, "addMember", userId, role)
    \/ \E userId \in Users : MemberCall(p, "removeMember", userId, None)
    \/ \E userId \in Users, newRole \in Roles :
          MemberCall(p, "updateMemberRole", userId, newRole)
    \/ GetMembership(p)
    \/ GetMembers(p)
    \/ AddMember(p)
    \/ RemoveMember(p)
    \/ UpdateMemberRole(p)
    \/ MemberReturn(p)

NextMembers == \E p \in Procs : MemberStep(p)

SpecMembers == Init /\ [][NextMembers]_vars

\* The same calls made one after the other: a call begins when no other is
\* in progress.
NextMembersInTurn ==
    \E p \in Procs :
        /\ mops[p].pc = "idle" => \A q \in Procs : mops[q].pc = "idle"
        /\ MemberStep(p)

SpecMembersInTurn == Init /\ [][NextMembersInTurn]_vars

\* ------------------------------------------------------ ApiKeyService.create
\* The organizations that create keys, and the subscriptionTier the route
\* reads from each and hands to create; GOLD is a tier API_KEY_LIMITS lacks.
KeyOrgs == {"orgA", "orgB", "orgC", "orgD"}

TierOf(orgId) ==
    CASE orgId = "orgA" -> "FREE"
      [] orgId = "orgB" -> "PRO"
      [] orgId = "orgC" -> "ENTERPRISE"
      [] OTHER -> "GOLD"

\* const limit = API_KEY_LIMITS[subscriptionTier] || 1
ApiKeyLimit(subscriptionTier) ==
    CASE subscriptionTier = "FREE" -> 1
      [] subscriptionTier = "PRO" -> 5
      [] subscriptionTier = "ENTERPRISE" -> 25
      [] OTHER -> 1

\* generateSecretName(orgId, apiKeyId): `groundhog/${orgId}/${apiKeyId}`
GenerateSecretName(orgId, apiKeyId) == <<"groundhog", orgId, apiKeyId>>

\* ApiKeyRepository.countByOrg: the APIKEY items of the org's partition.
KeysOf(orgId) == {k \in keyItems : k.orgId = orgId}

\* What every step of create leaves alone.
NotKeys ==
    <<clock, nrDash, nrEdits, storeVars, calls, readVars, serviceVars, members, mops,
      queueVars>>

KeyFail(p, kind) == [kops EXCEPT ![p].pc = "failed", ![p].error = kind]

\* create(input, subscriptionTier) is called with a New Relic key that
\* validateApiKey will find valid or not, with the accounts it gives access to.
CreateKeyCall(p, orgId, valid, accounts) ==
    /\ kops[p].pc = "idle"
    /\ kops' = [kops EXCEPT ![p] = [IdleKeyOp EXCEPT
                  !.pc = "count", !.orgId = orgId, !.subscriptionTier = TierOf(orgId),
                  !.valid = valid, !.accounts = accounts]]
    /\ UNCHANGED <<nextUuid, secrets, keyItems, NotKeys>>

\* await apiKeyRepository.countByOrg(orgId), then the test of the limit.
CheckTierLimit(p) ==
    /\ kops[p].pc = "count"
    /\ LET currentCount == Cardinality(KeysOf(kops[p].orgId))
           limit == ApiKeyLimit(kops[p].subscriptionTier)
           k == [kops EXCEPT ![p].currentCount = currentCount, ![p].limit = limit]
       IN kops' = IF currentCount >= limit
                  THEN [k EXCEPT ![p].pc = "failed", ![p].error = "ForbiddenError"]
                  ELSE [k EXCEPT ![p].pc = "validate"]
    /\ UNCHANGED <<nextUuid, secrets, keyItems, NotKeys>>

\* await client.validateApiKey() and the two tests on its answer.
ValidateApiKey(p) ==
    /\ kops[p].pc = "validate"
    /\ kops' = IF ~kops[p].valid \/ kops[p].accounts = <<>>
               THEN KeyFail(p, "BadRequestError")
               ELSE [kops EXCEPT ![p].pc = "createSecret"]
    /\ UNCHANGED <<nextUuid, secrets, keyItems, NotKeys>>

\* await createSecret(generateSecretName(orgId, 'pending'), ...): Secrets
\* Manager rejects a CreateSecretCommand whose Name is that of a secret
\* there is (ResourceExistsException); createSecret does not catch it.
CreateSecret(p) ==
    /\ kops[p].pc = "createSecret"
    /\ LET secretName == GenerateSecretName(kops[p].orgId, "pending") IN
       IF secretName \in secrets
       THEN /\ kops' = KeyFail(p, "ResourceExistsException")
            /\ UNCHANGED secrets
       ELSE /\ secrets' = secrets \cup {secretName}
            /\ kops' = [kops EXCEPT ![p].pc = "create", ![p].secretArn = <<"arn", secretName>>]
    /\ UNCHANGED <<nextUuid, keyItems, NotKeys>>

\* await apiKeyRepository.create(...): a uuid is drawn and the item put with
\* status ACTIVE.
CreateKeyRecord(p) ==
    /\ kops[p].pc = "create"
    /\ LET apiKey == [apiKeyId |-> nextUuid, orgId |-> kops[p].orgId,
                      secretArn |-> kops[p].secretArn,
                      newRelicAccountIds |-> kops[p].accounts,
                      status |-> "ACTIVE", dashboardCount |-> 0]
       IN /\ keyItems' = keyItems \cup {apiKey}
          /\ kops' = [kops EXCEPT ![p].pc = "update", ![p].apiKey = apiKey]
    /\ nextUuid' = nextUuid + 1
    /\ UNCHANGED <<secrets, NotKeys>>

\* await apiKeyRepository.update(orgId, apiKeyId, {lastValidated}), then the
\* key is returned.
TouchKeyRecord(p) ==
    /\ kops[p].pc = "update"
    /\ kops' = [kops EXCEPT ![p].pc = "done"]
    /\ UNCHANGED <<nextUuid, secrets, keyItems, NotKeys>>

\* The caller has the key, or the error.
CreateKeyReturn(p) ==
    /\ kops[p].pc \in {"done", "failed"}
    /\ kops' = [kops EXCEPT ![p] = IdleKeyOp]
    /\ UNCHANGED <<nextUuid, secrets, keyItems, NotKeys>>

AccountsChoices == {<<>>, <<"111">>}

NextKeys ==
    \E p \in Procs :
        \/ \E orgId \in KeyOrgs, valid \in BOOLEAN, accounts \in AccountsChoices :
              CreateKeyCall(p, orgId, valid, accounts)
        \/ CheckTierLimit(p)
        \/ ValidateApiKey(p)
        \/ CreateSecret(p)
        \/ CreateKeyRecord(p)
        \/ TouchKeyRecord(p)
        \/ CreateKeyReturn(p)

SpecKeys == Init /\ [][NextKeys]_vars

\* ------------------------------------------------- the backup queue handler
\* The invocation of the backup service that serves record i of the batch.
ProcOf(i) == IF i = 1 THEN "p1" ELSE "p2"

\* The bodies of the SQS records: BACKUP_SINGLE with or without its
\* dashboardGuid, BACKUP_ALL, a type the switch does not know, and a body
\* that is not JSON.
Message(type, orgId, dashboardGuid, accountId) ==
    [type |-> type, orgId |-> orgId, dashboardGuid |-> dashboardGuid,
     accountId |-> accountId]

Messages ==
    {Message("BACKUP_SINGLE", "orgA", g, None) : g \in Guids \cup {None}}
    \cup {Message("BACKUP_ALL", "orgA", None, "111")}
    \cup {Message("REPORT", "orgA", None, None), Message("malformed", None, None, None)}

\* processRecord(record) up to its first await: the promise is rejected at
\* once when JSON.parse throws or the dashboardGuid is missing, fulfilled at
\* once for an unknown type, and pending on the backup it started otherwise.
ProcessRecord(message) ==
    CASE message.type = "malformed" -> "rejected"
      [] message.type = "BACKUP_SINGLE" ->
            IF message.dashboardGuid = None THEN "rejected" ELSE "pending"
      [] message.type = "BACKUP_ALL" -> "pending"
      [] OTHER -> "fulfilled"

\* Mutant of StartedRecords: the records are processed one at a time, and
\* those after a rejected one are not.
StartedRecords_UntilRejected(Records) ==
    [i \in 1..Len(Records) |->
        IF \E j \in 1..(i - 1) : ProcessRecord(Records[j]) # "fulfilled"
        THEN "waiting"
        ELSE ProcessRecord(Records[i])]

\* event.Records.map((record) => processRecord(record)): one promise for
\* each record, each processRecord run up to its first await.
StartedRecords(Records) ==
    [i \in 1..Len(Records) |-> ProcessRecord(Records[i])]

\* The call of backupDashboard that record i has started, if it has.
StartedCall(Records, results, i) ==
    IF i <= Len(Records) /\ results[i] = "pending" /\ Records[i].type = "BACKUP_SINGLE"
    THEN [IdleCall EXCEPT !.pc = "getClient", !.orgId = Records[i].orgId,
                          !.dashboardGuid = Records[i].dashboardGuid]
    ELSE IdleCall

\* The call of backupAllDashboards that record i has started, if it has: it
\* has run up to its loop, as in BatchStart.
StartedBatch(Records, results, i) ==
    IF results[i] = "pending" /\ Records[i].type = "BACKUP_ALL"
    THEN LET b == [IdleBatch EXCEPT !.orgId = Records[i].orgId,
                                    !.accountId = Records[i].accountId]
             thrown == ClientError(Records[i].orgId)
         IN IF thrown # None THEN [b EXCEPT !.pc = "failed", !.error = thrown]
            ELSE [b EXCEPT !.pc = "list", !.acc = 1,
                           !.accountsToBackup =
                               AccountsToBackup(Records[i].accountId,
                                                apiKeys[Records[i].orgId])]
    ELSE IdleBatch

\* handler(event): Lambda invokes it with a batch of records; a BACKUP_ALL
\* message, the batch having one at most, is its first record.
HandlerStart(Records) ==
    /\ Quiet /\ hd.pc = "idle"
    /\ nextUuid <= MaxBackups
    /\ \A i \in 2..Len(Records) : Records[i].type # "BACKUP_ALL"
    /\ LET results == StartedRecords(Records) IN
       /\ hd' = [pc |-> "running", Records |-> Records, results |-> results]
       /\ calls' = [p \in Procs |->
                      IF p = "p1" /\ Records[1].type = "BACKUP_ALL" THEN IdleCall
                      ELSE StartedCall(Records, results, IF p = "p1" THEN 1 ELSE 2)]
       /\ bt' = StartedBatch(Records, results, 1)
    /\ UNCHANGED <<worldVars, storeVars, readVars, rs, adminVars>>

\* The backup that record i awaits has settled: processRecord logs and returns,
\* or logs and throws the error again.
RecordSettled(i) ==
    /\ hd.pc = "running"
    /\ i <= Len(hd.Records) /\ hd.results[i] = "pending"
    /\ IF hd.Records[i].type = "BACKUP_ALL"
       THEN /\ bt.pc \in {"done", "failed"}
            /\ hd' = [hd EXCEPT !.results[i] = IF bt.pc = "done" THEN "fulfilled"
                                               ELSE "rejected"]
            /\ bt' = IdleBatch
            /\ UNCHANGED calls
       ELSE /\ calls[ProcOf(i)].pc \in {"done", "failed"}
            /\ hd' = [hd EXCEPT !.results[i] = IF calls[ProcOf(i)].pc = "done"
                                               THEN "fulfilled" ELSE "rejected"]
            /\ calls' = [calls EXCEPT ![ProcOf(i)] = IdleCall]
            /\ UNCHANGED bt
    /\ UNCHANGED <<worldVars, storeVars, readVars, rs, adminVars>>

\* Promise.allSettled: every promise is fulfilled or rejected.
AllSettled(results) ==
    \A i \in 1..Len(results) : results[i] \in {"fulfilled", "rejected"}

\* await Promise.allSettled(...) returns; the failures are counted and
\* logged and the handler resolves.
HandlerResolve ==
    /\ hd.pc = "running"
    /\ AllSettled(hd.results)
    /\ hd' = [hd EXCEPT !.pc = "resolved"]
    /\ UNCHANGED <<worldVars, storeVars, calls, readVars, serviceVars, adminVars>>

\* Lambda has the handler's outcome.
HandlerReturn ==
    /\ hd.pc = "resolved"
    /\ \A p \in Procs : calls[p].pc \in {"idle", "done", "failed"}
    /\ bt.pc \in {"idle", "done", "failed"}
    /\ hd' = IdleHandler
    /\ calls' = [p \in Procs |-> IdleCall]
    /\ bt' = IdleBatch
    /\ UNCHANGED <<worldVars, storeVars, readVars, rs, adminVars>>

\* The steps of the backups that the records await.
QueueBackupStep ==
    \/ \E p \in Procs :
          \/ GetNewRelicClient(p)
          \/ GetDashboardJson(p)
          \/ PutObject(p)
          \/ CreateBackup(p)
          \/ CountBackups(p)
          \/ UpdateApiKey(p)
    \/ BatchList
    \/ BatchBackup
    \/ BatchCollect

NextQueue ==
    \/ ApiKeyValidate("orgA")
    \/ \E m1, m2 \in Messages : HandlerStart(<<m1, m2>>)
    \/ QueueBackupStep
    \/ \E i \in 1..2 : RecordSettled(i)
    \/ HandlerResolve
    \/ HandlerReturn

SpecQueue == Init /\ [][NextQueue]_vars

\* The event loop runs the handler's continuation once the promise of
\* Promise.allSettled has settled.
SpecQueueFair == SpecQueue /\ WF_vars(HandlerResolve)

\* ================================================================ claims
Finished(p) == calls[p].pc \in {"done", "failed"}

RecordsOf(p) == {c \in created : c.by = p}

\* The snapshot records now in the repository, as findById / the listings map them.
Snapshots == {MapToBackup(i) : i \in table}

\* C1. Every snapshot record's checksum is the SHA-256 of the bytes now stored
\* at its (s3Bucket, s3Key), and its sizeBytes is their byte length.
C1_ChecksumMatchesStoredBytes ==
    \A b \in Snapshots :
        /\ HasObject(b.s3Bucket, b.s3Key)
        /\ b.checksum = Sha256(GetObject(b.s3Bucket, b.s3Key))
        /\ b.sizeBytes = ByteLength(GetObject(b.s3Bucket, b.s3Key))

\* C3. The Blob Store write comes before the repository write, and a call whose
\* Blob Store write failed has failed and has created no snapshot record.
C3_WriteThenRecord ==
    /\ \A c \in created : calls[c.by].putDone
    /\ \A p \in Procs :
          calls[p].error = "S3Error" =>
              /\ calls[p].pc = "failed"
              /\ calls[p].backup = Null
              /\ RecordsOf(p) = {}

C3_Witness ==
    \E p, q \in Procs :
        /\ calls[p].pc = "failed" /\ calls[p].error = "S3Error"
        /\ calls[q].pc = "done" /\ table # {}

\* C4 as stated. When a call has finished, the payload it wrote exists in the
\* Blob Store if and only if a snapshot record referencing it exists.
C4_AtomicPayloadAndRecord ==
    \A p \in Procs :
        Finished(p) =>
            ((calls[p].putDone /\ HasObject(BACKUP_BUCKET, calls[p].s3Key))
             <=> (\E b \in Snapshots : b.s3Bucket = BACKUP_BUCKET /\ b.s3Key = calls[p].s3Key))

\* C4 as amended. A snapshot record exists only with its payload: every record
\* references an object of the Blob Store, and a call that created a record had
\* written its payload. A call whose repository write failed leaves its payload
\* in the Blob Store and has created no record.
C4_RecordOnlyWithPayload ==
    /\ \A b \in Snapshots : HasObject(b.s3Bucket, b.s3Key)
    /\ \A c \in created : HasObject(c.backup.s3Bucket, c.backup.s3Key)
    /\ \A p \in Procs :
          (calls[p].pc = "failed" /\ calls[p].putDone) =>
              /\ HasObject(BACKUP_BUCKET, calls[p].s3Key)
              /\ (calls[p].backup = Null => RecordsOf(p) = {})

C4_Witness ==
    \E p \in Procs :
        /\ calls[p].pc = "failed" /\ calls[p].error = "DynamoDBError"
        /\ calls[p].putDone /\ calls[p].backup = Null
        /\ HasObject(BACKUP_BUCKET, calls[p].s3Key)
        /\ ~\E b \in Snapshots : b.s3Key = calls[p].s3Key

\* C5. Two successful backups of the same (orgId, dashboardGuid) leave two
\* records with distinct snapshotIds and distinct backupTimestamps, both listed.
C5_TwoBackupsTwoRecords ==
    \A p, q \in Procs :
        (/\ p # q
         /\ calls[p].pc = "done" /\ calls[q].pc = "done"
         /\ calls[p].orgId = calls[q].orgId
         /\ calls[p].dashboardGuid = calls[q].dashboardGuid)
        => /\ calls[p].backup.snapshotId # calls[q].backup.snapshotId
           /\ calls[p].backup.backupTimestamp # calls[q].backup.backupTimestamp
           /\ {calls[p].backup, calls[q].backup} \subseteq Snapshots

\* C6. A snapshot, once created, stays in its org's partition with every field
\* as at creation, and the payload at its content location stays the same.
C6_SnapshotsImmutable ==
    \A c \in created :
        /\ \E i \in OrgPartition(table, c.backup.orgId) : MapToBackup(i) = c.backup
        /\ GetObject(c.backup.s3Bucket, c.backup.s3Key) = c.body

\* ---------------------------------------------------------- claims on reads
ReadDone(op) == rd.pc = "done" /\ rd.op = op

\* Non-increasing backupTimestamp: most recent capture first.
MostRecentFirst(r) ==
    \A k \in 1..(Len(r) - 1) : r[k].backupTimestamp >= r[k + 1].backupTimestamp

NumberOfSnapshots(orgId) == Cardinality(OrgPartition(table, orgId))

\* C2. findById(A, id) never returns a snapshot of another org: for a snapshot
\* created under org B # A it answers not-found, however the store pages.
C2_FindByIdIsolation ==
    ReadDone("findById") =>
        /\ rd.result # Null => rd.result.orgId = rd.orgId
        /\ \A c \in created :
              (c.backup.snapshotId = rd.snapshotId /\ c.backup.orgId # rd.orgId)
              => rd.result = Null

C2_Witness ==
    /\ ReadDone("findById")
    /\ rd.result = Null
    /\ rd.lastEvaluatedKey # NoKey
    /\ \E b \in Snapshots : b.snapshotId = rd.snapshotId /\ b.orgId # rd.orgId

\* C7. listByDashboard returns at most limit snapshots, all of that org and
\* dashboard, most recent first; getLatestByDashboard returns the most recent
\* snapshot of the dashboard, or none when it has none.
C7_ListByDashboardOrdered ==
    /\ ReadDone("listByDashboard") =>
          /\ Len(rd.result) <= rd.limit
          /\ \A k \in 1..Len(rd.result) :
                /\ rd.result[k] \in Snapshots
                /\ rd.result[k].orgId = rd.orgId
                /\ rd.result[k].dashboardGuid = rd.dashboardGuid
          /\ MostRecentFirst(rd.result)
    /\ ReadDone("getLatestByDashboard") =>
          LET history == {b \in Snapshots : b.orgId = rd.orgId
                                            /\ b.dashboardGuid = rd.dashboardGuid}
          IN IF history = {} THEN rd.result = Null
             ELSE /\ rd.result \in history
                  /\ \A b \in history : b.backupTimestamp <= rd.result.backupTimestamp

C7_Witness ==
    /\ ReadDone("listByDashboard")
    /\ Len(rd.result) = 2
    /\ rd.result[1].backupTimestamp > rd.result[2].backupTimestamp

\* C8. listByOrg, and each page of listByOrgPaginated, lists the org's
\* snapshots most recent capture first across all its dashboards.
C8_ListByOrgMostRecentFirst ==
    /\ ReadDone("listByOrg") => MostRecentFirst(rd.result)
    /\ ReadDone("listByOrgPaginated") => MostRecentFirst(rd.result.data)

\* C9. With no write in between, countByOrg equals the number of items
\* listByOrg returns when maxItems is at least the number of snapshots of the
\* org, however the store pages; and each turn of either drain loop that does
\* not end the loop leaves fewer items to read, so both loops end.
C9_CountInv ==
    (/\ ReadDone("countByOrg")
     /\ rd.listed # Null
     /\ rd.listed.maxItems >= NumberOfSnapshots(rd.orgId))
    => rd.result = Len(rd.listed.data)

ItemsLeft(r) ==
    Len(AfterKey(SortBySKDesc(OrgPartition(table, r.orgId)), r.lastEvaluatedKey))

C9_DrainTurn ==
    (/\ rd.pc = "run" /\ rd.op \in {"countByOrg", "listByOrg"}
     /\ rd'.pc = "run")
    => ItemsLeft(rd') < ItemsLeft(rd)

C9_CountEqualsListLength == [](C9_CountInv) /\ [][C9_DrainTurn]_vars

C9_Witness ==
    /\ ReadDone("countByOrg")
    /\ rd.listed # Null
    /\ rd.listed.maxItems >= NumberOfSnapshots(rd.orgId)
    /\ rd.lastEvaluatedKey # NoKey
    /\ rd.result >= 2

\* C10. With no write between the calls, the pages 1, 2, ... of
\* listByOrgPaginated taken while hasNext is true, put end to end, are the
\* sequence one listByOrg call returns: nothing twice, nothing missing.
C10_PagesConcatEqualsList ==
    (/\ ReadDone("listByOrgPaginated")
     /\ rd.firstPage = 1
     /\ ~rd.result.pagination.hasNext)
    => /\ \A j, k \in 1..Len(rd.concat) : j # k => rd.concat[j] # rd.concat[k]
       /\ Range(rd.concat) = {MapToBackup(i) : i \in OrgPartition(table, rd.orgId)}
       /\ (rd.listed # Null /\ rd.listed.maxItems >= NumberOfSnapshots(rd.orgId))
             => rd.concat = rd.listed.data

C10_Witness ==
    /\ ReadDone("listByOrgPaginated")
    /\ rd.firstPage = 1 /\ rd.page >= 2
    /\ ~rd.result.pagination.hasNext
    /\ rd.listed # Null
    /\ rd.listed.maxItems >= NumberOfSnapshots(rd.orgId)
    /\ Len(rd.concat) >= 3

\* C11. listByOrgPaginated(org, page, limit) answers hasNext = TRUE exactly
\* when the org has more than page * limit snapshot records, however the store
\* splits the result into pages and returns a continuation token; a page past
\* the end is empty with hasNext = FALSE; and each turn of the loop that does
\* not end it leaves fewer items to read, so the call ends.
C11_HasNextInv ==
    ReadDone("listByOrgPaginated") =>
        LET n == NumberOfSnapshots(rd.orgId) IN
        /\ rd.result.pagination.hasNext <=> (n > rd.page * rd.limit)
        /\ SkipCount(rd.page, rd.limit) >= n =>
              (rd.result.data = <<>> /\ ~rd.result.pagination.hasNext)

C11_LoopTurn ==
    (rd.pc = "run" /\ rd.op = "listByOrgPaginated" /\ rd'.pc = "run")
    => ItemsLeft(rd') < ItemsLeft(rd)

C11_HasNextExact == [](C11_HasNextInv) /\ [][C11_LoopTurn]_vars

\* C12. pagination.total and pagination.totalPages of listByOrgPaginated are
\* lower bounds, for every page and limit, pages past the last record
\* included: total is at most the number of snapshot records of the org, and
\* for a non-empty org totalPages is at most ceil(that number / limit).
CeilDiv(n, d) == (n + d - 1) \div d

C12_TotalIsLowerBound ==
    ReadDone("listByOrgPaginated") =>
        LET n == NumberOfSnapshots(rd.orgId) IN
        /\ rd.result.pagination.total <= n
        /\ n > 0 => rd.result.pagination.totalPages <= CeilDiv(n, rd.limit)

\* -------------------------------------------------------- claims on restore
RestoreReplied == rs.op = "restore" /\ rs.pc = "replied" /\ rs.snapshotId # 0

\* The external write call of the restore in progress, once issued.
CallIssued == rs.op = "restore" /\ rs.sent # Null

IdentityFields == {"guid", "accountId", "createdAt", "updatedAt"}

\* C13. For every stored payload, the dashboard restoreDashboard submits to
\* createDashboard has no top-level guid, accountId, createdAt or updatedAt,
\* no guid on a page and no id on a widget; every other field is the stored
\* one, except the name, which is newName when newName is given.
C13_RestorePayloadCleaned ==
    (CallIssued /\ rs.sent.op = "createDashboard") =>
        LET stored == JsonParse(rs.content)
            sub == rs.sent.dashboard
        IN /\ DOMAIN sub = DOMAIN stored \ IdentityFields
           /\ \A k \in DOMAIN sub \ {"pages", "name"} : sub[k] = stored[k]
           /\ sub.name = IF rs.newName # None THEN rs.newName ELSE stored.name
           /\ Len(sub.pages) = Len(stored.pages)
           /\ \A i \in 1..Len(sub.pages) :
                 LET page == sub.pages[i]
                     storedPage == stored.pages[i]
                 IN /\ DOMAIN page = DOMAIN storedPage \ {"guid"}
                    /\ \A k \in DOMAIN page \ {"widgets"} : page[k] = storedPage[k]
                    /\ Len(page.widgets) = Len(storedPage.widgets)
                    /\ \A j \in 1..Len(page.widgets) :
                          /\ DOMAIN page.widgets[j] = DOMAIN storedPage.widgets[j] \ {"id"}
                          /\ \A k \in DOMAIN page.widgets[j] :
                                page.widgets[j][k] = storedPage.widgets[j][k]

C13_Witness ==
    /\ CallIssued /\ rs.sent.op = "createDashboard"
    /\ rs.newName = "Restored" /\ rs.sent.dashboard.name = "Restored"
    /\ "guid" \in DOMAIN JsonParse(rs.content)
    /\ "id" \in DOMAIN JsonParse(rs.content).pages[1].widgets[1]
    /\ rs.sent.dashboard.pages[1].widgets[1].title = "T"

C15_RestoreFailuresAreValues ==
    RestoreReplied =>
        LET backup == FindById(rs.orgId, rs.snapshotId) IN
        /\ rs.nrResponse \in {"errors", "unreachable"} =>
              (rs.error = None /\ rs.result.success = FALSE)
        /\ backup = Null => (rs.error = "NotFoundError" /\ rs.result = Null)
        /\ rs.s3Response = "NoSuchKey" => (rs.error = "NotFoundError" /\ rs.result = Null)
        /\ (rs.s3Response = "Body" /\ ClientError(rs.orgId) # None) =>
              (rs.error = ClientError(rs.orgId) /\ rs.result = Null)
        /\ (rs.result # Null /\ rs.result.success) => rs.nrResponse = "ok"
        /\ rs.error # None => rs.sent = Null

C15_Witness ==
    /\ RestoreReplied
    /\ rs.nrResponse = "unreachable"
    /\ rs.error = None /\ rs.result.success = FALSE

\* C16. A restore request whose external write fails is answered with a
\* non-error status and a body carrying success: false; an error status is
\* used only when the request was rejected with a typed error.
C16_RestoreFailureIsNormalResponse ==
    (rs.op = "restore" /\ rs.pc = "replied") =>
        /\ rs.nrResponse \in {"errors", "unreachable"} =>
              (rs.statusCode < 400 /\ rs.result.success = FALSE)
        /\ rs.statusCode >= 400 => rs.error # None

\* C19. getBackupContent fails with NotFound when the org sees no record of
\* the snapshot, and also when the record exists and S3 answers that its
\* object does not exist; it returns the stored bytes when S3 returns them.
C19_MissingContentIsNotFound ==
    (rs.op = "getBackupContent" /\ rs.pc = "replied") =>
        LET backup == FindById(rs.orgId, rs.snapshotId) IN
        /\ backup = Null => rs.error = "NotFoundError"
        /\ (backup # Null /\ rs.s3Response = "NoSuchKey") => rs.error = "NotFoundError"
        /\ (backup # Null /\ rs.s3Response = "Body") =>
              (rs.error = None /\ rs.content = s3[<<backup.s3Bucket, backup.s3Key>>])

C19_Witness ==
    /\ rs.op = "getBackupContent" /\ rs.pc = "replied"
    /\ FindById(rs.orgId, rs.snapshotId) # Null
    /\ ~HasObject(rs.backup.s3Bucket, rs.backup.s3Key)
    /\ rs.error = "NotFoundError"

\* ---------------------------------------------------- claims on the batch
\* C17. In backupAllDashboards a failure of backupDashboard never aborts the
\* batch: every dashboard listed is attempted exactly once, in order, the
\* call returns normally once its loop has begun, and the results hold
\* exactly one BackupResult for each dashboard whose backup created a
\* snapshot, none for the others.
C17_BatchToleratesFailures ==
    /\ bt.pc = "failed" => bt.attempted = <<>>
    /\ bt.pc = "done" =>
          /\ bt.attempted = bt.listed
          /\ Len(bt.results) = Cardinality(bt.snapshots)
          /\ {bt.results[k].snapshotId : k \in 1..Len(bt.results)} = bt.snapshots

\* C18. With an accountId, backupAllDashboards lists and backs up that
\* account only; without one, every account id recorded on the credential;
\* and when nothing fails it returns one BackupResult, has one snapshot
\* record and has made one Blob Store write for each dashboard listed.
C18_BatchCoversAccounts ==
    bt.pc = "done" =>
        /\ bt.accountId # None =>
              /\ bt.accountsToBackup = <<bt.accountId>>
              /\ \A k \in 1..Len(bt.attempted) : AccountOf(bt.attempted[k]) = bt.accountId
        /\ bt.accountId = None =>
              bt.accountsToBackup = apiKeys[bt.orgId].newRelicAccountIds
        /\ (bt.errors = <<>> /\ bt.listFailures = 0) =>
              /\ bt.listed = IF bt.accountId # None THEN ListDashboards(bt.accountId)
                              ELSE ListDashboards("111") \o ListDashboards("222")
              /\ Len(bt.results) = Len(bt.listed)
              /\ bt.writes = Len(bt.listed)
              /\ \A k \in 1..Len(bt.results) :
                    /\ bt.results[k].dashboardGuid = bt.listed[k]
                    /\ FindById(bt.orgId, bt.results[k].snapshotId) # Null
                    /\ FindById(bt.orgId, bt.results[k].snapshotId).dashboardGuid = bt.listed[k]
              /\ \A j, k \in 1..Len(bt.results) :
                    j # k => bt.results[j].snapshotId # bt.results[k].snapshotId

C18_Witness ==
    /\ bt.pc = "done" /\ bt.accountId = None
    /\ bt.errors = <<>> /\ bt.listFailures = 0
    /\ Len(bt.results) = 2 /\ bt.writes = 2
    /\ Cardinality(OrgPartition(table, bt.orgId)) = 2

\* ------------------------------------------------ claims on the credential
\* The call of p has gone past getNewRelicClient, or was thrown out of it.
PastClient(p) == calls[p].pc \notin {"idle", "getClient"}

\* In the failure cases backupDashboard makes no external call, Blob Store
\* write or repository write, and only a usable credential lets it go on.
NoEffectWithoutClient ==
    \A p \in Procs :
        LET c == calls[p]
            apiKey == apiKeys[c.orgId]
            usable == apiKey # Null /\ apiKey.status = "ACTIVE" /\ apiKey.hasSecret
        IN PastClient(p) =>
             /\ ~usable => (c.pc = "failed" /\ ~c.fetched /\ ~c.putDone /\ c.backup = Null)
             /\ (c.fetched \/ c.pc # "failed") => usable

\* C20. Resolving the client fails with NotFound when the credential record
\* is missing and when its secret is missing, and with the distinct
\* InvalidState kind (BadRequestError) when its status is not ACTIVE; a client
\* is had only for an ACTIVE credential with its secret; in the failure cases
\* backupDashboard makes no external call, Blob Store write or repository write.
C20_CredentialResolution ==
    /\ NoEffectWithoutClient
    /\ \A p \in Procs :
          LET c == calls[p]
              apiKey == apiKeys[c.orgId]
          IN PastClient(p) =>
               /\ apiKey = Null => c.error = "NotFoundError"
               /\ (apiKey # Null /\ apiKey.status # "ACTIVE") => c.error = "BadRequestError"
               /\ (apiKey # Null /\ apiKey.status = "ACTIVE" /\ ~apiKey.hasSecret)
                     => c.error = "NotFoundError"

\* ------------------------------------------------- claims on the read path
\* C21. When the external API errors, times out or returns malformed data
\* while a dashboard is fetched, backupDashboard and compareWithCurrent
\* throw ExternalServiceError: backupDashboard does not report NotFound and
\* compareWithCurrent does not return a result saying the dashboard no
\* longer exists.
C21_ExternalFailurePropagates ==
    /\ \A p \in Procs :
          calls[p].nrResponse = "error" =>
              calls[p].pc = "failed" /\ calls[p].error = "ExternalServiceError"
    /\ (rs.op = "compare" /\ rs.nrResponse = "error") =>
          rs.error = "ExternalServiceError" /\ rs.result = Null

CompareFields == {"name", "description", "pages", "variables"}

\* The value of field f differs between the two dashboards.
Differs(a, b, f) ==
    \/ (f \in DOMAIN a) # (f \in DOMAIN b)
    \/ f \in DOMAIN a /\ f \in DOMAIN b /\ a[f] # b[f]

\* compareWithCurrent has returned a CompareResult.
Compared == rs.op = "compare" /\ rs.pc = "replied" /\ rs.error = None

\* The result is the one C22 describes for the live dashboard given.
CompareResultDetermined(live) ==
    LET result == rs.result
        backupDashboard == JsonParse(rs.content)
    IN IF live = Null
       THEN /\ result.hasChanges
            /\ result.changedFields = <<"Dashboard no longer exists in New Relic">>
       ELSE /\ Range(result.changedFields) =
                  {f \in CompareFields : Differs(backupDashboard, live, f)}
            /\ Len(result.changedFields) = Cardinality(Range(result.changedFields))
            /\ result.hasChanges <=> result.changedFields # <<>>

\* A step of compareWithCurrent leaves New Relic, the Blob Store and the
\* repositories as they are.
CompareNonMutating ==
    (rs'.op = "compare" /\ rs' # rs) => UNCHANGED <<nrDash, table, s3, apiKeys, created>>

\* The part of C22 that holds: the result is determined by what getDashboard
\* returned, and nothing is written.
CompareDeterminedByFetch ==
    /\ [](Compared =>
            CompareResultDetermined(GetDashboard(rs.backup.dashboardGuid, rs.nrResponse)))
    /\ [][CompareNonMutating]_vars

\* C22. compareWithCurrent writes nothing, and its result is: hasChanges
\* with the single synthetic entry if the live dashboard does not exist;
\* otherwise changedFields is exactly the fields among name, description,
\* pages and variables whose value differs between the snapshot payload and
\* the live dashboard, and hasChanges iff changedFields is not empty.
C22_CompareDetermined ==
    /\ [](Compared => CompareResultDetermined(nrDash[rs.backup.dashboardGuid]))
    /\ [][CompareNonMutating]_vars

\* ------------------------------------------------------ claims on the search
\* str contains term, letters compared without regard to case.
ContainsIgnoringCase(str, term) ==
    \E i \in 0..(Len(str) - Len(term)) :
        \A j \in 1..Len(term) : LowerOf(str[i + j]) = LowerOf(term[j])

\* The snapshot matches the search term.
IsMatch(backup, search) ==
    \/ ContainsIgnoringCase(CharsOf(backup.dashboardName), Trim(search))
    \/ ContainsIgnoringCase(CharsOf(backup.dashboardGuid), Trim(search))

\* The search of listBackupsByOrg has returned.
Searched == rd.op = "listBackupsByOrg" /\ rd.pc = "done"

\* The response is page rd.page of the matches found among the records of
\* window: its total is their number, its data are rd.limit of them at most,
\* the ones that the pages before did not take, and hasNext says whether
\* matches follow.
SearchedWithin(window) ==
    LET matches == {b \in window : IsMatch(b, rd.search)}
        total == Cardinality(matches)
        start == (rd.page - 1) * rd.limit
        data == rd.result.data
        expected == IF total <= start THEN 0 ELSE Min(rd.limit, total - start)
    IN /\ rd.result.pagination.total = total
       /\ Range(data) \subseteq matches
       /\ Len(data) = expected
       /\ Cardinality(Range(data)) = expected
       /\ rd.result.pagination.hasNext <=> (start + rd.limit < total)

\* The sets of n most recent records of the org: no record left out was
\* captured after one taken.
MostRecentWindows(orgId, n) ==
    LET all == {MapToBackup(i) : i \in OrgPartition(table, orgId)} IN
    {w \in SUBSET all :
        /\ Cardinality(w) = Min(n, Cardinality(all))
        /\ \A b \in w, c \in all \ w : b.backupTimestamp >= c.backupTimestamp}

\* Without a term the response is one of listByOrgPaginated: its data are
\* the page of the org's list.
BlankSearchIsPaginated ==
    (rd.pc = "done" /\ rd.op = "listByOrgPaginated") =>
        LET all == MapAll(SortBySKDesc(OrgPartition(table, rd.orgId)))
            start == (rd.page - 1) * rd.limit
        IN rd.result.data = SubSeq(all, start + 1, Min(start + rd.limit, Len(all)))

\* The part of C23 that holds: the matches are those among the records that
\* listByOrg(orgId, 1000) returns, the first of the partition in its order.
SearchWithinScan ==
    /\ Searched =>
          SearchedWithin(Range(MapAll(Take(SortBySKDesc(OrgPartition(table, rd.orgId)),
                                           SearchMaxItems))))
    /\ BlankSearchIsPaginated

\* C23. With a non-blank term listBackupsByOrg returns page `page` of size
\* `limit` of exactly the snapshots, among the org's most recent records up
\* to the cap, whose dashboardName or dashboardGuid contains the trimmed term
\* whatever the case; total is the number of such matches and hasNext holds
\* iff more matches follow the page. With a blank or absent term it behaves
\* as listByOrgPaginated.
C23_SearchAmongMostRecent ==
    /\ Searched => \E w \in MostRecentWindows(rd.orgId, SearchMaxItems) : SearchedWithin(w)
    /\ BlankSearchIsPaginated

\* ----------------------------------------------------- claims on the members
\* A call that needed the last-admin test went on only when it counted more
\* than one ADMIN, and was rejected with ForbiddenError when it counted one.
LastAdminRejected ==
    \A p \in Procs :
        /\ (mops[p].pc \in {"write", "done"} /\ NeedsAdminCount(mops[p]))
              => mops[p].adminCount > 1
        /\ (mops[p].error = "ForbiddenError")
              => NeedsAdminCount(mops[p]) /\ mops[p].adminCount <= 1

\* The step that rejects a call leaves the memberships as they are.
RejectedWritesNothing ==
    \A p \in Procs :
        (mops'[p].pc = "failed" /\ mops[p].pc # "failed") => members' = members

\* The organization has an ADMIN.
HasAdmin == \E u \in Users : members[u] = "ADMIN"

\* C24. removeMember on an ADMIN and updateMemberRole demoting an ADMIN are
\* rejected with ForbiddenError, the memberships unchanged, when that member
\* is the only ADMIN, and after any sequence of addMember, removeMember and
\* updateMemberRole calls, concurrent ones included, the organization still
\* has an ADMIN.
C24_NeverWithoutAdmin ==
    /\ [](LastAdminRejected /\ HasAdmin)
    /\ [][RejectedWritesNothing]_vars

\* ---------------------------------------------------- claims on the API keys
\* A call rejected for the limit counted at least the limit and created
\* neither a secret nor a record.
LimitEnforced ==
    \A p \in Procs :
        LET k == kops[p] IN
        /\ k.error = "ForbiddenError" =>
              /\ k.currentCount >= ApiKeyLimit(TierOf(k.orgId))
              /\ k.secretArn = NoKey /\ k.apiKey = Null
        /\ k.pc \notin {"idle", "count", "failed"} =>
              k.currentCount < ApiKeyLimit(TierOf(k.orgId))
        /\ (k.pc = "failed" /\ k.currentCount >= ApiKeyLimit(TierOf(k.orgId))) =>
              k.error = "ForbiddenError"

\* No org has more key records than its tier allows.
WithinTierLimit ==
    \A orgId \in KeyOrgs : Cardinality(KeysOf(orgId)) <= ApiKeyLimit(TierOf(orgId))

\* A call made below the limit with a key that validates with an account
\* does not fail, and once it has returned its ACTIVE record is stored.
CreateBelowLimitSucceeds ==
    \A p \in Procs :
        LET k == kops[p] IN
        (/\ k.pc \in {"done", "failed"}
         /\ k.currentCount < ApiKeyLimit(TierOf(k.orgId))
         /\ k.valid /\ k.accounts # <<>>)
        => /\ k.pc = "done"
           /\ k.apiKey \in keyItems
           /\ k.apiKey.status = "ACTIVE"

\* The part of C25 that holds.
TierLimitKept == LimitEnforced /\ WithinTierLimit

\* C25. ApiKeyService.create enforces the tier limit (FREE 1, PRO 5,
\* ENTERPRISE 25, unknown tier 1): with the limit reached it throws
\* ForbiddenError and creates neither a secret nor a record; below the limit,
\* with a New Relic key that validates with at least one account, it
\* succeeds and stores a record with status ACTIVE; and after any create
\* calls, concurrent ones included, no org has more records than its limit.
C25_TierLimit == LimitEnforced /\ WithinTierLimit /\ CreateBelowLimitSucceeds

\* ------------------------------------------------------ claims on findById
\* findById has returned what the partition holds: the record with the
\* snapshotId when there is one, null when there is none.
C26_FindByIdInv ==
    ReadDone("findById") =>
        LET found == {i \in OrgPartition(table, rd.orgId) : i.snapshotId = rd.snapshotId}
        IN IF found = {} THEN rd.result = Null
           ELSE rd.result \in {MapToBackup(i) : i \in found}

\* A turn of the drain loop that does not end it leaves fewer items to read.
C26_DrainTurn ==
    (rd.pc = "run" /\ rd.op = "findById" /\ rd'.pc = "run")
    => ItemsLeft(rd') < ItemsLeft(rd)

\* C26. findById returns the snapshot whenever a record with that snapshotId
\* is in the org's partition, however many store pages come before the one
\* holding it, pages with no item passing the filter but a continuation token
\* included; it returns null only when the partition holds no such record;
\* and the drain loop ends.
C26_FindByIdDrains == [](C26_FindByIdInv) /\ [][C26_DrainTurn]_vars

C26_Witness ==
    /\ ReadDone("findById")
    /\ rd.result # Null
    /\ rd.lastEvaluatedKey # NoKey
    /\ Cardinality(OrgPartition(table, rd.orgId)) = MaxCreates

\* -------------------------------------------------- claims on the bookkeeping
\* C27. Updating the credential's dashboard count and last-run timestamp is
\* best-effort: once the snapshot record is written, a failure of countByOrg
\* or of the credential update does not fail backupDashboard, which returns
\* the BackupResult of the snapshot, and backupAllDashboards has it in its
\* results.
C27_BookkeepingBestEffort ==
    /\ \A p \in Procs : calls[p].backup # Null => calls[p].pc # "failed"
    /\ bt.pc \in {"list", "backup", "done"} =>
          bt.snapshots \subseteq {bt.results[k].snapshotId : k \in 1..Len(bt.results)}

\* C28. After all backupDashboard calls for an org made with one credential
\* have completed, run one after the other or concurrently, the credential's
\* dashboardCount equals countByOrg(org), the number of snapshot records of
\* the org: no interleaving of the count and the update leaves a stale
\* smaller value.
C28_DashboardCountCurrent ==
    \A orgId \in Orgs :
        (/\ \A p \in Procs : calls[p].pc \in {"idle", "done"}
         /\ \E p \in Procs : calls[p].pc = "done" /\ calls[p].orgId = orgId)
        => apiKeys[orgId].dashboardCount = Cardinality(OrgPartition(table, orgId))

\* ------------------------------------------- claims on the restore's effects
\* The snapshot of the request is not in the org, or its payload is not in
\* the Blob Store, or the org's credential is missing or not ACTIVE.
RestoreBlocked ==
    LET backup == FindById(rs.orgId, rs.snapshotId) IN
    \/ backup = Null
    \/ ~HasObject(backup.s3Bucket, backup.s3Key)
    \/ apiKeys[rs.orgId] = Null
    \/ apiKeys[rs.orgId].status # "ACTIVE"

\* A blocked restore has thrown without issuing its call, and no restore
\* that threw has issued one.
RestoreGuarded ==
    (rs.op = "restore" /\ rs.pc \in {"write", "replied"} /\ rs.snapshotId # 0) =>
        /\ RestoreBlocked =>
              /\ rs.pc = "replied" /\ rs.error # None
              /\ rs.sent = Null /\ rs.nrResponse = None
        /\ rs.error # None => rs.sent = Null /\ rs.nrResponse = None

\* A step of a restore writes neither to the Blob Store nor to the
\* repositories, and changes New Relic only by a call that was issued and
\* that New Relic performed.
RestoreFrame ==
    ((rs.op = "restore" \/ rs'.op = "restore") /\ rs' # rs) =>
        /\ UNCHANGED <<table, s3, created, apiKeys>>
        /\ nrDash' # nrDash =>
              rs.pc = "write" /\ rs.sent # Null /\ rs.error = None /\ rs'.nrResponse = "ok"

\* C29. restoreDashboard and restoreInPlace issue no createDashboard or
\* updateDashboard call when the snapshot is not found in the caller's org,
\* when its payload is missing from the Blob Store, or when the credential is
\* missing or not ACTIVE: the error is raised before any external write, New
\* Relic is left unchanged, and no restore writes to the Blob Store or the
\* Snapshot Repository.
C29_RestoreNoWriteOnError == [](RestoreGuarded) /\ [][RestoreFrame]_vars

C29_Witness ==
    /\ rs.op = "restore" /\ rs.pc = "replied" /\ rs.restoreInPlace
    /\ FindById(rs.orgId, rs.snapshotId) # Null
    /\ rs.content # NoKey
    /\ apiKeys[rs.orgId] = Null
    /\ rs.error = "NotFoundError" /\ rs.sent = Null

\* The backup that record i of the batch in progress awaits.
AwaitedBackup(i) ==
    IF hd.Records[i].type = "BACKUP_ALL"
    THEN [pc |-> bt.pc, started |-> bt.pc # "idle" /\ bt.orgId = hd.Records[i].orgId]
    ELSE [pc |-> calls[ProcOf(i)].pc,
          started |-> /\ calls[ProcOf(i)].pc # "idle"
                      /\ calls[ProcOf(i)].orgId = hd.Records[i].orgId
                      /\ calls[ProcOf(i)].dashboardGuid = hd.Records[i].dashboardGuid]

\* While the handler runs, every record of the batch has been started: it is
\* settled, or its backup is in progress, whatever became of the others.
EveryRecordStarted ==
    hd.pc # "idle" =>
        \A i \in 1..Len(hd.Records) :
            /\ hd.results[i] \in {"pending", "fulfilled", "rejected"}
            /\ hd.results[i] = "pending" => AwaitedBackup(i).started

\* A record settles by its own backup only: it is fulfilled when its backup
\* succeeded and rejected when it failed, and until then no step withdraws
\* the backup it awaits.
RecordsIndependent ==
    hd.pc = "running" /\ hd'.pc = "running" =>
        \A i \in 1..Len(hd.Records) :
            hd.results[i] = "pending" =>
                IF hd'.results[i] = "pending"
                THEN AwaitedBackup(i).started'
                ELSE /\ AwaitedBackup(i).pc \in {"done", "failed"}
                     /\ hd'.results[i] = "fulfilled" <=> AwaitedBackup(i).pc = "done"

\* The handler resolves only when every record has settled.
ResolvedWhenSettled ==
    hd.pc = "resolved" => AllSettled(hd.results)

\* C30: the queue handler starts every record of the batch, the records
\* proceed concurrently and each settles by its own outcome, so that a
\* rejected record neither prevents nor cancels the others, and the handler
\* resolves once all records have settled, whether or not some of them failed.
C30_HandlerSettlesAll ==
    /\ [](EveryRecordStarted /\ ResolvedWhenSettled)
    /\ [][RecordsIndependent]_vars
    /\ (hd.pc = "running" /\ AllSettled(hd.results)) ~> (hd.pc = "resolved")

\* The handler has resolved a batch whose first record was rejected, for its
\* missing dashboardGuid, and whose second record's backup was stored.
C30_Witness ==
    /\ hd.pc = "resolved"
    /\ hd.Records[1].type = "BACKUP_SINGLE" /\ hd.Records[1].dashboardGuid = None
    /\ hd.results[1] = "rejected"
    /\ hd.Records[2].type = "BACKUP_SINGLE"
    /\ hd.results[2] = "fulfilled"
    /\ \E b \in table : b.dashboardGuid = hd.Records[2].dashboardGuid

====
